---- MODULE Spec2Model ----
(***************************************************************************)
(* Model of frontend/app.js of the product chatbot: the markdown renderer  *)
(* (markdownToHTML), the specification normalizer                          *)
(* (extractAllTechnicalSpecs) and the comparison structurer                *)
(* (extractStructuredComparison) with the display decision of              *)
(* performCompare.                                                         *)
(*                                                                         *)
(* A JavaScript string is a sequence of one-character strings.  The        *)
(* characters outside ASCII are written "a:" "o:" "u:" "A:" "O:" "U:"      *)
(* (umlauts), "sz" (sharp s) and "bullet" (U+2022), the backtick "bt".     *)
(***************************************************************************)
EXTENDS Integers, Sequences, FiniteSets

VARIABLES
    \* extractAllTechnicalSpecs
    n_pc, product, payload, specs, seenKeys, offered,
    \* markdownToHTML
    m_pc, markdown, html, codeBlocks, lines, lineIdx, processedLines,
    inList, inCodeBlock,
    \* extractStructuredComparison and performCompare
    c_pc, responseText, products, result, sections, currentProduct,
    currentSection, flags, sectionIdx, cLineIdx, display,
    \* the module state and the calls made so far
    conversationHistory, promptsData, calls,
    \* sendMessage: the elements of the chat list, the clock, the requests
    \* made, the responses in the order they arrived, the calls made
    chat, now, requests, arrived, sent

n_vars == <<n_pc, product, payload, specs, seenKeys, offered>>
m_vars == <<m_pc, markdown, html, codeBlocks, lines, lineIdx, processedLines,
            inList, inCodeBlock>>
c_vars == <<c_pc, responseText, products, result, sections, currentProduct,
            currentSection, flags, sectionIdx, cLineIdx, display>>
s_vars == <<chat, now, requests, arrived, sent>>
g_vars == <<conversationHistory, promptsData, calls, s_vars>>
vars == <<n_vars, m_vars, c_vars, g_vars>>

----------------------------------------------------------------------------
(* Strings *)

UpperChars == <<"A","B","C","D","E","F","G","H","I","J","K","L","M","N","O","P","Q","R","S","T","U","V","W","X","Y","Z","A:","O:","U:">>
LowerChars == <<"a","b","c","d","e","f","g","h","i","j","k","l","m","n","o","p","q","r","s","t","u","v","w","x","y","z","a:","o:","u:">>
Digits == <<"0","1","2","3","4","5","6","7","8","9">>
WhiteChars == {" ", "\n", "\t"}

IndexIn(c, s) == IF \E i \in 1..Len(s) : s[i] = c
                 THEN CHOOSE i \in 1..Len(s) : s[i] = c
                 ELSE 0

\* String.prototype.toLowerCase / toUpperCase, one character
LowerChar(c) == IF IndexIn(c, UpperChars) > 0
                THEN LowerChars[IndexIn(c, UpperChars)] ELSE c
UpperChar(c) == IF IndexIn(c, LowerChars) > 0
                THEN UpperChars[IndexIn(c, LowerChars)] ELSE c

toLowerCase(s) == [i \in 1..Len(s) |-> LowerChar(s[i])]

\* /[A-Z]/ matches the ASCII capitals only
IsAsciiUpper(c) == IndexIn(c, UpperChars) \in 1..26
IsDigit(c) == IndexIn(c, Digits) > 0

\* String.prototype.includes / startsWith / endsWith
includes(s, sub) ==
    \E i \in 0..(Len(s) - Len(sub)) : SubSeq(s, i + 1, i + Len(sub)) = sub
startsWith(s, sub) ==
    Len(sub) <= Len(s) /\ SubSeq(s, 1, Len(sub)) = sub
endsWith(s, sub) ==
    Len(sub) <= Len(s) /\ SubSeq(s, Len(s) - Len(sub) + 1, Len(s)) = sub

\* index (from 1) of the first occurrence of sub in s at or after from, or 0
indexOfFrom(s, sub, from) ==
    LET hits == {i \in from..(Len(s) - Len(sub) + 1) :
                    SubSeq(s, i, i + Len(sub) - 1) = sub}
    IN IF hits = {} THEN 0 ELSE CHOOSE i \in hits : \A j \in hits : i <= j

\* String.prototype.trim
RECURSIVE trimStart(_)
trimStart(s) == IF s # << >> /\ Head(s) \in WhiteChars
                THEN trimStart(Tail(s)) ELSE s
RECURSIVE trimEnd(_)
trimEnd(s) == IF s # << >> /\ s[Len(s)] \in WhiteChars
              THEN trimEnd(SubSeq(s, 1, Len(s) - 1)) ELSE s
trim(s) == trimEnd(trimStart(s))

\* s.replace(/c/g, rep) for a one-character pattern
RECURSIVE replaceAllChar(_, _, _)
replaceAllChar(s, c, rep) ==
    IF s = << >> THEN << >>
    ELSE (IF Head(s) = c THEN rep ELSE <<Head(s)>>)
         \o replaceAllChar(Tail(s), c, rep)

\* s.replace(/([A-Z])/g, ' $1')
RECURSIVE spaceBeforeCapitals(_)
spaceBeforeCapitals(s) ==
    IF s = << >> THEN << >>
    ELSE (IF IsAsciiUpper(Head(s)) THEN <<" ", Head(s)>> ELSE <<Head(s)>>)
         \o spaceBeforeCapitals(Tail(s))

\* s.replace(/^./, c => c.toUpperCase()): "." does not match a line break
capitalizeFirst(s) ==
    IF s = << >> \/ Head(s) = "\n" THEN s
    ELSE <<UpperChar(Head(s))>> \o Tail(s)

\* Array.prototype.join over an array of strings
RECURSIVE join(_, _)
join(parts, sep) ==
    IF parts = << >> THEN << >>
    ELSE IF Len(parts) = 1 THEN parts[1]
    ELSE parts[1] \o sep \o join(Tail(parts), sep)

\* Number.prototype.toString for a natural number
RECURSIVE numToString(_)
numToString(n) ==
    IF n < 10 THEN <<Digits[n + 1]>>
    ELSE numToString(n \div 10) \o <<Digits[(n % 10) + 1]>>

\* Number(s) for a string of decimal digits; -1 stands for NaN
RECURSIVE digitsValue(_, _)
digitsValue(s, acc) ==
    IF s = << >> THEN acc
    ELSE IF ~IsDigit(Head(s)) THEN -1
    ELSE digitsValue(Tail(s), 10 * acc + IndexIn(Head(s), Digits) - 1)
stringToNumber(s) == digitsValue(trim(s), 0)

----------------------------------------------------------------------------
(* String.prototype.localeCompare: a three-level collation.  The primary   *)
(* level orders white space and punctuation before digits before letters,  *)
(* an umlaut weighing as its base letter; the secondary level tells an     *)
(* umlaut from its base letter; the tertiary level puts lower case before  *)
(* upper case.                                                             *)

PrimaryOrder == <<" ","_","-",",",".",":",";","/","(",")","%","0","1","2","3","4","5","6","7","8","9","a","b","c","d","e","f","g","h","i","j","k","l","m","n","o","p","q","r","s","t","u","v","w","x","y","z">>
BaseChar(c) ==
    LET l == LowerChar(c)
    IN IF l = "a:" THEN "a" ELSE IF l = "o:" THEN "o"
       ELSE IF l = "u:" THEN "u" ELSE IF l = "sz" THEN "s" ELSE l
Primary(c) == IndexIn(BaseChar(c), PrimaryOrder)
Secondary(c) == IF LowerChar(c) \in {"a:", "o:", "u:", "sz"} THEN 1 ELSE 0
Tertiary(c) == IF IndexIn(c, UpperChars) > 0 THEN 1 ELSE 0

\* lexicographic comparison of two sequences of numbers: -1, 0 or 1
RECURSIVE compareWeights(_, _)
compareWeights(a, b) ==
    IF a = << >> /\ b = << >> THEN 0
    ELSE IF a = << >> THEN -1
    ELSE IF b = << >> THEN 1
    ELSE IF Head(a) < Head(b) THEN -1
    ELSE IF Head(a) > Head(b) THEN 1
    ELSE compareWeights(Tail(a), Tail(b))

RECURSIVE weights(_, _)
weights(s, level) ==
    IF s = << >> THEN << >>
    ELSE <<IF level = 1 THEN Primary(Head(s))
           ELSE IF level = 2 THEN Secondary(Head(s))
           ELSE Tertiary(Head(s))>> \o weights(Tail(s), level)

localeCompare(a, b) ==
    LET p == compareWeights(weights(a, 1), weights(b, 1))
        s == compareWeights(weights(a, 2), weights(b, 2))
        t == compareWeights(weights(a, 3), weights(b, 3))
    IN IF p # 0 THEN p ELSE IF s # 0 THEN s ELSE t

----------------------------------------------------------------------------
(* JavaScript values of a JSON payload: [t |-> type, v |-> content].       *)
(* Undefined is what reading an absent property gives.  An object holds    *)
(* its entries in Object.entries order.                                    *)

Null == [t |-> "null", v |-> 0]
Undefined == [t |-> "undef", v |-> 0]
Str(s) == [t |-> "str", v |-> s]
Num(n) == [t |-> "num", v |-> n]
Bool(b) == [t |-> "bool", v |-> b]
Arr(a) == [t |-> "arr", v |-> a]
Obj(e) == [t |-> "obj", v |-> e]
KV(k, val) == [k |-> k, v |-> val]

\* !value
Falsy(x) ==
    \/ x.t \in {"null", "undef"}
    \/ x.t = "str" /\ x.v = << >>
    \/ x.t = "num" /\ x.v = 0
    \/ x.t = "bool" /\ x.v = FALSE
Truthy(x) == ~Falsy(x)

\* typeof value === 'object' && value !== null
IsObject(x) == x.t \in {"obj", "arr"}

\* value === null || value === undefined || value === ''
IsEmptyField(x) ==
    x.t \in {"null", "undef"} \/ (x.t = "str" /\ x.v = << >>)

\* Object.entries(value): an array's entries are keyed by its indices
Entries(x) ==
    IF x.t = "obj" THEN x.v
    ELSE IF x.t = "arr"
         THEN [i \in 1..Len(x.v) |-> KV(numToString(i - 1), x.v[i])]
    ELSE << >>

\* obj.key: the value of the property, undefined when there is none
\* (a string or a number has none of the payload's properties)
Get(x, key) ==
    IF x.t = "obj" /\ \E i \in 1..Len(x.v) : x.v[i].k = key
    THEN x.v[CHOOSE i \in 1..Len(x.v) : x.v[i].k = key].v
    ELSE Undefined

\* a || b
OrElse(a, b) == IF Truthy(a) THEN a ELSE b

\* String(value), `${value}`
RECURSIVE StringOf(_)
StringOf(x) ==
    CASE x.t = "str" -> x.v
      [] x.t = "num" -> numToString(x.v)
      [] x.t = "bool" -> IF x.v THEN <<"t","r","u","e">> ELSE <<"f","a","l","s","e">>
      [] x.t = "null" -> <<"n","u","l","l">>
      [] x.t = "undef" -> <<"u","n","d","e","f","i","n","e","d">>
      [] x.t = "arr" ->
            join([i \in 1..Len(x.v) |->
                    IF x.v[i].t \in {"null", "undef"} THEN << >>
                    ELSE StringOf(x.v[i])],
                 <<",">>)
      [] x.t = "obj" -> <<"[","o","b","j","e","c","t"," ","O","b","j","e","c","t","]">>

\* JSON.stringify(value) of a payload value (no character needs escaping)
RECURSIVE JSONstringify(_)
JSONstringify(x) ==
    CASE x.t = "str" -> <<"\"">> \o x.v \o <<"\"">>
      [] x.t = "num" -> numToString(x.v)
      [] x.t = "bool" -> IF x.v THEN <<"t","r","u","e">> ELSE <<"f","a","l","s","e">>
      [] x.t \in {"null", "undef"} -> <<"n","u","l","l">>
      [] x.t = "arr" ->
            <<"[">> \o join([i \in 1..Len(x.v) |-> JSONstringify(x.v[i])], <<",">>)
                \o <<"]">>
      [] x.t = "obj" ->
            <<"{">> \o join([i \in 1..Len(x.v) |->
                            <<"\"">> \o x.v[i].k \o <<"\"",":">>
                                \o JSONstringify(x.v[i].v)], <<",">>)
                \o <<"}">>

\* value > 0 with JavaScript's conversion to a number
GreaterThanZero(x) ==
    CASE x.t = "num" -> x.v > 0
      [] x.t = "bool" -> x.v
      [] x.t = "str" -> stringToNumber(x.v) > 0
      [] x.t = "arr" -> stringToNumber(StringOf(x)) > 0
      [] OTHER -> FALSE

----------------------------------------------------------------------------
(* The label tables of extractAllTechnicalSpecs, key -> label. *)

\* app.js lines 454-473
batterieLabels == <<
    KV(<<"k","a","p","a","z","i","t","a","e","t","_","a","h">>, <<"K","a","p","a","z","i","t","a:","t"," ","(","A","h",")">>),
    KV(<<"k","a","p","a","z","i","t","a","e","t","_","k","w","h">>, <<"K","a","p","a","z","i","t","a:","t"," ","(","k","W","h",")">>),
    KV(<<"s","p","a","n","n","u","n","g","_","v">>, <<"S","p","a","n","n","u","n","g">>),
    KV(<<"z","e","l","l","t","y","p">>, <<"Z","e","l","l","t","y","p">>),
    KV(<<"z","e","l","l","a","n","z","a","h","l">>, <<"Z","e","l","l","e","n","a","n","z","a","h","l">>),
    KV(<<"e","n","t","l","a","d","e","t","i","e","f","e">>, <<"E","n","t","l","a","d","e","t","i","e","f","e">>),
    KV(<<"m","a","x","_","e","n","t","l","a","d","e","s","t","r","o","m","_","a">>, <<"M","a","x","."," ","E","n","t","l","a","d","e","s","t","r","o","m">>),
    KV(<<"m","a","x","_","l","a","d","e","s","t","r","o","m","_","a">>, <<"M","a","x","."," ","L","a","d","e","s","t","r","o","m">>),
    KV(<<"z","y","k","l","u","s","l","e","b","e","n","s","d","a","u","e","r">>, <<"Z","y","k","l","e","n","l","e","b","e","n","s","d","a","u","e","r">>),
    KV(<<"t","e","m","p","e","r","a","t","u","r","b","e","r","e","i","c","h">>, <<"T","e","m","p","e","r","a","t","u","r","b","e","r","e","i","c","h">>),
    KV(<<"b","m","s">>, <<"B","M","S"," ","(","B","a","t","t","e","r","i","e","-","M","a","n","a","g","e","m","e","n","t",")">>),
    KV(<<"p","a","r","a","l","l","e","l","s","c","h","a","l","t","u","n","g">>, <<"P","a","r","a","l","l","e","l","s","c","h","a","l","t","u","n","g">>),
    KV(<<"r","e","i","h","e","n","s","c","h","a","l","t","u","n","g">>, <<"R","e","i","h","e","n","s","c","h","a","l","t","u","n","g">>),
    KV(<<"s","e","l","b","s","t","e","n","t","l","a","d","u","n","g","_","p","r","o","z","e","n","t","_","m","o","n","a","t">>, <<"S","e","l","b","s","t","e","n","t","l","a","d","u","n","g","/","M","o","n","a","t">>),
    KV(<<"l","a","d","e","z","e","i","t","_","s","t","u","n","d","e","n">>, <<"L","a","d","e","z","e","i","t">>),
    KV(<<"g","e","w","i","c","h","t","_","k","g">>, <<"G","e","w","i","c","h","t">>),
    KV(<<"a","b","m","e","s","s","u","n","g","e","n","_","m","m">>, <<"A","b","m","e","s","s","u","n","g","e","n">>),
    KV(<<"i","n","t","e","g","r","i","e","r","t","e","_","h","e","i","z","u","n","g">>, <<"I","n","t","e","g","r","i","e","r","t","e"," ","H","e","i","z","u","n","g">>)
    >>

\* app.js lines 480-496
wechselrichterLabels == <<
    KV(<<"n","e","n","n","l","e","i","s","t","u","n","g","_","w">>, <<"N","e","n","n","l","e","i","s","t","u","n","g">>),
    KV(<<"m","a","x","_","l","e","i","s","t","u","n","g","_","w">>, <<"M","a","x","."," ","L","e","i","s","t","u","n","g">>),
    KV(<<"e","i","n","g","a","n","g","s","s","p","a","n","n","u","n","g","_","v">>, <<"E","i","n","g","a","n","g","s","s","p","a","n","n","u","n","g">>),
    KV(<<"a","u","s","g","a","n","g","s","s","p","a","n","n","u","n","g","_","v">>, <<"A","u","s","g","a","n","g","s","s","p","a","n","n","u","n","g">>),
    KV(<<"e","i","n","g","a","n","g","s","s","t","r","o","m","_","a">>, <<"E","i","n","g","a","n","g","s","s","t","r","o","m">>),
    KV(<<"a","u","s","g","a","n","g","s","s","t","r","o","m","_","a">>, <<"A","u","s","g","a","n","g","s","s","t","r","o","m">>),
    KV(<<"w","i","r","k","u","n","g","s","g","r","a","d">>, <<"W","i","r","k","u","n","g","s","g","r","a","d">>),
    KV(<<"p","h","a","s","e","n">>, <<"P","h","a","s","e","n">>),
    KV(<<"m","p","p","t">>, <<"M","P","P","T">>),
    KV(<<"m","p","p","t","_","s","p","a","n","n","u","n","g","_","v">>, <<"M","P","P","T"," ","S","p","a","n","n","u","n","g">>),
    KV(<<"m","p","p","t","_","a","n","z","a","h","l">>, <<"M","P","P","T"," ","A","n","z","a","h","l">>),
    KV(<<"m","a","x","_","l","e","e","r","l","a","u","f","s","p","a","n","n","u","n","g","_","v">>, <<"M","a","x","."," ","L","e","e","r","l","a","u","f","s","p","a","n","n","u","n","g">>),
    KV(<<"w","e","l","l","e","n","f","o","r","m">>, <<"W","e","l","l","e","n","f","o","r","m">>),
    KV(<<"f","r","e","q","u","e","n","z","_","h","z">>, <<"F","r","e","q","u","e","n","z">>),
    KV(<<"s","c","h","u","t","z","k","l","a","s","s","e">>, <<"S","c","h","u","t","z","k","l","a","s","s","e">>)
    >>

\* app.js lines 503-520
hybridwechselrichterLabels == <<
    KV(<<"p","v","_","l","e","i","s","t","u","n","g","_","m","a","x","_","w">>, <<"P","V","-","L","e","i","s","t","u","n","g"," ","m","a","x">>),
    KV(<<"p","v","_","s","p","a","n","n","u","n","g","_","m","a","x","_","v">>, <<"P","V","-","S","p","a","n","n","u","n","g"," ","m","a","x">>),
    KV(<<"p","v","_","s","p","a","n","n","u","n","g","_","m","i","n","_","v">>, <<"P","V","-","S","p","a","n","n","u","n","g"," ","m","i","n">>),
    KV(<<"p","v","_","s","t","r","o","m","_","m","a","x","_","a">>, <<"P","V","-","S","t","r","o","m"," ","m","a","x">>),
    KV(<<"b","a","t","t","e","r","i","e","_","s","p","a","n","n","u","n","g","_","v">>, <<"B","a","t","t","e","r","i","e","-","S","p","a","n","n","u","n","g">>),
    KV(<<"b","a","t","t","e","r","i","e","_","k","a","p","a","z","i","t","a","e","t","_","m","i","n","_","k","w","h">>, <<"B","a","t","t","e","r","i","e","-","K","a","p","a","z","i","t","a:","t"," ","m","i","n">>),
    KV(<<"b","a","t","t","e","r","i","e","_","k","a","p","a","z","i","t","a","e","t","_","m","a","x","_","k","w","h">>, <<"B","a","t","t","e","r","i","e","-","K","a","p","a","z","i","t","a:","t"," ","m","a","x">>),
    KV(<<"n","o","t","s","t","r","o","m">>, <<"N","o","t","s","t","r","o","m">>),
    KV(<<"n","o","t","s","t","r","o","m","_","l","e","i","s","t","u","n","g","_","w">>, <<"N","o","t","s","t","r","o","m","-","L","e","i","s","t","u","n","g">>),
    KV(<<"n","e","t","z","p","a","r","a","l","l","e","l">>, <<"N","e","t","z","p","a","r","a","l","l","e","l">>),
    KV(<<"i","n","s","e","l","b","e","t","r","i","e","b">>, <<"I","n","s","e","l","b","e","t","r","i","e","b">>),
    KV(<<"k","o","m","p","a","t","i","b","l","e","_","b","a","t","t","e","r","i","e","n">>, <<"K","o","m","p","a","t","i","b","l","e"," ","B","a","t","t","e","r","i","e","n">>),
    KV(<<"p","h","a","s","e","n">>, <<"P","h","a","s","e","n">>),
    KV(<<"w","i","r","k","u","n","g","s","g","r","a","d">>, <<"W","i","r","k","u","n","g","s","g","r","a","d">>),
    KV(<<"n","e","n","n","l","e","i","s","t","u","n","g","_","w">>, <<"N","e","n","n","l","e","i","s","t","u","n","g">>),
    KV(<<"m","a","x","_","l","e","i","s","t","u","n","g","_","w">>, <<"M","a","x","."," ","L","e","i","s","t","u","n","g">>)
    >>

\* app.js lines 527-546
speichersystemLabels == <<
    KV(<<"s","p","e","i","c","h","e","r","k","a","p","a","z","i","t","a","e","t","_","k","w","h">>, <<"S","p","e","i","c","h","e","r","k","a","p","a","z","i","t","a:","t">>),
    KV(<<"s","p","e","i","c","h","e","r","t","y","p">>, <<"S","p","e","i","c","h","e","r","t","y","p">>),
    KV(<<"b","a","t","t","e","r","i","e","_","s","p","a","n","n","u","n","g","_","v">>, <<"B","a","t","t","e","r","i","e","-","S","p","a","n","n","u","n","g">>),
    KV(<<"w","e","c","h","s","e","l","r","i","c","h","t","e","r","_","i","n","t","e","g","r","i","e","r","t">>, <<"W","e","c","h","s","e","l","r","i","c","h","t","e","r"," ","i","n","t","e","g","r","i","e","r","t">>),
    KV(<<"w","e","c","h","s","e","l","r","i","c","h","t","e","r","_","l","e","i","s","t","u","n","g","_","w">>, <<"W","e","c","h","s","e","l","r","i","c","h","t","e","r","-","L","e","i","s","t","u","n","g">>),
    KV(<<"n","o","t","s","t","r","o","m">>, <<"N","o","t","s","t","r","o","m">>),
    KV(<<"n","o","t","s","t","r","o","m","_","l","e","i","s","t","u","n","g","_","w">>, <<"N","o","t","s","t","r","o","m","-","L","e","i","s","t","u","n","g">>),
    KV(<<"e","r","w","e","i","t","e","r","b","a","r">>, <<"E","r","w","e","i","t","e","r","b","a","r">>),
    KV(<<"m","a","x","_","m","o","d","u","l","e">>, <<"M","a","x","."," ","M","o","d","u","l","e">>),
    KV(<<"m","o","d","u","l","_","k","a","p","a","z","i","t","a","e","t","_","k","w","h">>, <<"M","o","d","u","l","-","K","a","p","a","z","i","t","a:","t">>),
    KV(<<"e","n","t","l","a","d","e","t","i","e","f","e">>, <<"E","n","t","l","a","d","e","t","i","e","f","e">>),
    KV(<<"w","i","r","k","u","n","g","s","g","r","a","d","_","r","o","u","n","d","t","r","i","p">>, <<"R","o","u","n","d","t","r","i","p","-","W","i","r","k","u","n","g","s","g","r","a","d">>),
    KV(<<"m","a","x","_","e","n","t","l","a","d","e","l","e","i","s","t","u","n","g","_","w">>, <<"M","a","x","."," ","E","n","t","l","a","d","e","l","e","i","s","t","u","n","g">>),
    KV(<<"m","a","x","_","l","a","d","e","l","e","i","s","t","u","n","g","_","w">>, <<"M","a","x","."," ","L","a","d","e","l","e","i","s","t","u","n","g">>),
    KV(<<"i","n","s","e","l","b","e","t","r","i","e","b">>, <<"I","n","s","e","l","b","e","t","r","i","e","b">>),
    KV(<<"k","o","m","p","a","t","i","b","l","e","_","w","e","c","h","s","e","l","r","i","c","h","t","e","r">>, <<"K","o","m","p","a","t","i","b","l","e"," ","W","e","c","h","s","e","l","r","i","c","h","t","e","r">>),
    KV(<<"m","a","x","_","s","p","e","i","c","h","e","r","k","a","p","a","z","i","t","a","e","t","_","k","w","h">>, <<"M","a","x","."," ","S","p","e","i","c","h","e","r","k","a","p","a","z","i","t","a:","t">>),
    KV(<<"s","e","l","b","s","t","l","o","e","s","c","h","e","n","d">>, <<"S","e","l","b","s","t","l","o:","s","c","h","e","n","d">>)
    >>

\* app.js lines 553-576
solarmodulLabels == <<
    KV(<<"m","o","d","u","l","l","e","i","s","t","u","n","g","_","w","p">>, <<"M","o","d","u","l","l","e","i","s","t","u","n","g">>),
    KV(<<"m","o","d","u","l","s","p","a","n","n","u","n","g","_","v","o","c","_","v">>, <<"L","e","e","r","l","a","u","f","s","p","a","n","n","u","n","g"," ","(","V","o","c",")">>),
    KV(<<"m","o","d","u","l","s","p","a","n","n","u","n","g","_","v","m","p","_","v">>, <<"M","P","P","-","S","p","a","n","n","u","n","g"," ","(","V","m","p",")">>),
    KV(<<"m","o","d","u","l","s","t","r","o","m","_","i","s","c","_","a">>, <<"K","u","r","z","s","c","h","l","u","s","s","s","t","r","o","m"," ","(","I","s","c",")">>),
    KV(<<"m","o","d","u","l","s","t","r","o","m","_","i","m","p","_","a">>, <<"M","P","P","-","S","t","r","o","m"," ","(","I","m","p",")">>),
    KV(<<"m","o","d","u","l","t","y","p">>, <<"M","o","d","u","l","t","y","p">>),
    KV(<<"z","e","l","l","e","n","a","n","z","a","h","l">>, <<"Z","e","l","l","e","n","a","n","z","a","h","l">>),
    KV(<<"z","e","l","l","t","y","p">>, <<"Z","e","l","l","t","y","p">>),
    KV(<<"w","i","r","k","u","n","g","s","g","r","a","d">>, <<"W","i","r","k","u","n","g","s","g","r","a","d">>),
    KV(<<"t","e","m","p","e","r","a","t","u","r","k","o","e","f","f","i","z","i","e","n","t","_","p","m","a","x">>, <<"T","e","m","p",".","-","K","o","e","f","f","."," ","P","m","a","x">>),
    KV(<<"t","e","m","p","e","r","a","t","u","r","k","o","e","f","f","i","z","i","e","n","t","_","v","o","c">>, <<"T","e","m","p",".","-","K","o","e","f","f","."," ","V","o","c">>),
    KV(<<"t","e","m","p","e","r","a","t","u","r","k","o","e","f","f","i","z","i","e","n","t","_","i","s","c">>, <<"T","e","m","p",".","-","K","o","e","f","f","."," ","I","s","c">>),
    KV(<<"m","a","x","_","s","y","s","t","e","m","s","p","a","n","n","u","n","g","_","v">>, <<"M","a","x","."," ","S","y","s","t","e","m","s","p","a","n","n","u","n","g">>),
    KV(<<"m","a","x","_","s","e","r","i","e","n","s","c","h","a","l","t","u","n","g">>, <<"M","a","x","."," ","S","e","r","i","e","n","s","c","h","a","l","t","u","n","g">>),
    KV(<<"m","a","x","_","p","a","r","a","l","l","e","l","s","c","h","a","l","t","u","n","g">>, <<"M","a","x","."," ","P","a","r","a","l","l","e","l","s","c","h","a","l","t","u","n","g">>),
    KV(<<"a","b","m","e","s","s","u","n","g","e","n","_","m","m">>, <<"A","b","m","e","s","s","u","n","g","e","n">>),
    KV(<<"g","e","w","i","c","h","t","_","k","g">>, <<"G","e","w","i","c","h","t">>),
    KV(<<"r","a","h","m","e","n","h","o","e","h","e">>, <<"R","a","h","m","e","n","h","o:","h","e">>),
    KV(<<"r","a","h","m","e","n","f","a","r","b","e">>, <<"R","a","h","m","e","n","f","a","r","b","e">>),
    KV(<<"b","i","f","a","z","i","a","l">>, <<"B","i","f","a","z","i","a","l">>),
    KV(<<"f","u","l","l","_","b","l","a","c","k">>, <<"F","u","l","l"," ","B","l","a","c","k">>),
    KV(<<"t","r","a","n","s","p","a","r","e","n","t">>, <<"T","r","a","n","s","p","a","r","e","n","t","/","L","i","c","h","t","d","u","r","c","h","l","a:","s","s","i","g">>)
    >>

\* app.js lines 583-597
ladereglerLabels == <<
    KV(<<"l","a","d","e","r","e","g","l","e","r","_","t","y","p">>, <<"L","a","d","e","r","e","g","l","e","r","-","T","y","p">>),
    KV(<<"l","a","d","e","s","t","r","o","m","_","a">>, <<"L","a","d","e","s","t","r","o","m">>),
    KV(<<"l","a","d","e","s","t","r","o","m","_","m","a","x","_","a">>, <<"M","a","x","."," ","L","a","d","e","s","t","r","o","m">>),
    KV(<<"p","v","_","l","e","i","s","t","u","n","g","_","m","a","x","_","w">>, <<"P","V","-","L","e","i","s","t","u","n","g"," ","m","a","x">>),
    KV(<<"p","v","_","s","p","a","n","n","u","n","g","_","m","a","x","_","v">>, <<"P","V","-","S","p","a","n","n","u","n","g"," ","m","a","x">>),
    KV(<<"p","v","_","s","p","a","n","n","u","n","g","_","m","i","n","_","v">>, <<"P","V","-","S","p","a","n","n","u","n","g"," ","m","i","n">>),
    KV(<<"p","v","_","s","t","r","o","m","_","m","a","x","_","a">>, <<"P","V","-","S","t","r","o","m"," ","m","a","x">>),
    KV(<<"b","a","t","t","e","r","i","e","_","s","p","a","n","n","u","n","g","_","v">>, <<"B","a","t","t","e","r","i","e","-","S","p","a","n","n","u","n","g">>),
    KV(<<"s","p","a","n","n","u","n","g","s","b","e","r","e","i","c","h","_","v">>, <<"S","p","a","n","n","u","n","g","s","b","e","r","e","i","c","h">>),
    KV(<<"t","e","m","p","e","r","a","t","u","r","k","o","m","p","e","n","s","a","t","i","o","n">>, <<"T","e","m","p","e","r","a","t","u","r","k","o","m","p","e","n","s","a","t","i","o","n">>),
    KV(<<"l","a","d","e","p","h","a","s","e","n">>, <<"L","a","d","e","p","h","a","s","e","n">>),
    KV(<<"l","a","d","e","p","r","o","t","o","k","o","l","l","e">>, <<"L","a","d","e","p","r","o","t","o","k","o","l","l","e">>),
    KV(<<"u","n","t","e","r","s","t","u","e","t","z","t","e","_","b","a","t","t","e","r","i","e","t","y","p","e","n">>, <<"U","n","t","e","r","s","t","u:","t","z","t","e"," ","B","a","t","t","e","r","i","e","t","y","p","e","n">>)
    >>

\* app.js lines 604-614
spannungswandlerLabels == <<
    KV(<<"e","i","n","g","a","n","g","s","s","p","a","n","n","u","n","g","_","v">>, <<"E","i","n","g","a","n","g","s","s","p","a","n","n","u","n","g">>),
    KV(<<"a","u","s","g","a","n","g","s","s","p","a","n","n","u","n","g","_","v">>, <<"A","u","s","g","a","n","g","s","s","p","a","n","n","u","n","g">>),
    KV(<<"l","e","i","s","t","u","n","g","_","w">>, <<"L","e","i","s","t","u","n","g">>),
    KV(<<"s","t","r","o","m","_","m","a","x","_","a">>, <<"M","a","x","."," ","S","t","r","o","m">>),
    KV(<<"w","i","r","k","u","n","g","s","g","r","a","d">>, <<"W","i","r","k","u","n","g","s","g","r","a","d">>),
    KV(<<"i","s","o","l","i","e","r","t">>, <<"G","a","l","v","a","n","i","s","c","h"," ","i","s","o","l","i","e","r","t">>),
    KV(<<"s","c","h","u","t","z","k","l","a","s","s","e">>, <<"S","c","h","u","t","z","k","l","a","s","s","e">>),
    KV(<<"t","e","m","p","e","r","a","t","u","r","b","e","r","e","i","c","h">>, <<"T","e","m","p","e","r","a","t","u","r","b","e","r","e","i","c","h">>),
    KV(<<"u","n","t","e","r","s","t","u","e","t","z","t","e","_","b","a","t","t","e","r","i","e","t","y","p","e","n">>, <<"U","n","t","e","r","s","t","u:","t","z","t","e"," ","B","a","t","t","e","r","i","e","t","y","p","e","n">>)
    >>

\* app.js lines 621-632
mikrowechselrichterLabels == <<
    KV(<<"m","o","d","u","l","l","e","i","s","t","u","n","g","_","m","a","x","_","w","p">>, <<"M","a","x","."," ","M","o","d","u","l","l","e","i","s","t","u","n","g">>),
    KV(<<"m","o","d","u","l","s","p","a","n","n","u","n","g","_","m","a","x","_","v">>, <<"M","a","x","."," ","M","o","d","u","l","s","p","a","n","n","u","n","g">>),
    KV(<<"m","o","d","u","l","s","p","a","n","n","u","n","g","_","m","i","n","_","v">>, <<"M","i","n","."," ","M","o","d","u","l","s","p","a","n","n","u","n","g">>),
    KV(<<"m","o","d","u","l","s","t","r","o","m","_","m","a","x","_","a">>, <<"M","a","x","."," ","M","o","d","u","l","s","t","r","o","m">>),
    KV(<<"a","u","s","g","a","n","g","s","s","p","a","n","n","u","n","g","_","v">>, <<"A","u","s","g","a","n","g","s","s","p","a","n","n","u","n","g">>),
    KV(<<"a","u","s","g","a","n","g","s","l","e","i","s","t","u","n","g","_","w">>, <<"A","u","s","g","a","n","g","s","l","e","i","s","t","u","n","g">>),
    KV(<<"w","i","r","k","u","n","g","s","g","r","a","d">>, <<"W","i","r","k","u","n","g","s","g","r","a","d">>),
    KV(<<"m","p","p","t">>, <<"M","P","P","T">>),
    KV(<<"n","e","t","z","p","a","r","a","l","l","e","l">>, <<"N","e","t","z","p","a","r","a","l","l","e","l">>),
    KV(<<"p","h","a","s","e","n">>, <<"P","h","a","s","e","n">>)
    >>

\* app.js lines 639-653
stringwechselrichterLabels == <<
    KV(<<"n","e","n","n","l","e","i","s","t","u","n","g","_","w">>, <<"N","e","n","n","l","e","i","s","t","u","n","g">>),
    KV(<<"p","v","_","l","e","i","s","t","u","n","g","_","m","a","x","_","w">>, <<"P","V","-","L","e","i","s","t","u","n","g"," ","m","a","x">>),
    KV(<<"p","v","_","s","p","a","n","n","u","n","g","_","m","a","x","_","v">>, <<"P","V","-","S","p","a","n","n","u","n","g"," ","m","a","x">>),
    KV(<<"p","v","_","s","p","a","n","n","u","n","g","_","m","i","n","_","v">>, <<"P","V","-","S","p","a","n","n","u","n","g"," ","m","i","n">>),
    KV(<<"p","v","_","s","t","r","o","m","_","m","a","x","_","a">>, <<"P","V","-","S","t","r","o","m"," ","m","a","x">>),
    KV(<<"m","p","p","t","_","a","n","z","a","h","l">>, <<"M","P","P","T"," ","A","n","z","a","h","l">>),
    KV(<<"m","p","p","t","_","s","p","a","n","n","u","n","g","_","v">>, <<"M","P","P","T"," ","S","p","a","n","n","u","n","g">>),
    KV(<<"a","u","s","g","a","n","g","s","s","p","a","n","n","u","n","g","_","v">>, <<"A","u","s","g","a","n","g","s","s","p","a","n","n","u","n","g">>),
    KV(<<"a","u","s","g","a","n","g","s","l","e","i","s","t","u","n","g","_","w">>, <<"A","u","s","g","a","n","g","s","l","e","i","s","t","u","n","g">>),
    KV(<<"w","i","r","k","u","n","g","s","g","r","a","d">>, <<"W","i","r","k","u","n","g","s","g","r","a","d">>),
    KV(<<"p","h","a","s","e","n">>, <<"P","h","a","s","e","n">>),
    KV(<<"n","e","t","z","p","a","r","a","l","l","e","l">>, <<"N","e","t","z","p","a","r","a","l","l","e","l">>),
    KV(<<"m","a","x","_","l","e","e","r","l","a","u","f","s","p","a","n","n","u","n","g","_","v">>, <<"M","a","x","."," ","L","e","e","r","l","a","u","f","s","p","a","n","n","u","n","g">>)
    >>

\* app.js lines 660-686
powerstationLabels == <<
    KV(<<"k","a","p","a","z","i","t","a","e","t","_","w","h">>, <<"K","a","p","a","z","i","t","a:","t"," ","(","W","h",")">>),
    KV(<<"k","a","p","a","z","i","t","a","e","t","_","k","w","h">>, <<"K","a","p","a","z","i","t","a:","t"," ","(","k","W","h",")">>),
    KV(<<"n","e","n","n","l","e","i","s","t","u","n","g","_","w">>, <<"N","e","n","n","l","e","i","s","t","u","n","g">>),
    KV(<<"m","a","x","_","l","e","i","s","t","u","n","g","_","w">>, <<"M","a","x","."," ","L","e","i","s","t","u","n","g">>),
    KV(<<"b","a","t","t","e","r","i","e","_","t","y","p">>, <<"B","a","t","t","e","r","i","e","t","y","p">>),
    KV(<<"w","e","c","h","s","e","l","r","i","c","h","t","e","r","_","i","n","t","e","g","r","i","e","r","t">>, <<"W","e","c","h","s","e","l","r","i","c","h","t","e","r"," ","i","n","t","e","g","r","i","e","r","t">>),
    KV(<<"n","o","t","s","t","r","o","m">>, <<"N","o","t","s","t","r","o","m","/","U","S","V">>),
    KV(<<"n","o","t","s","t","r","o","m","_","l","e","i","s","t","u","n","g","_","w">>, <<"N","o","t","s","t","r","o","m","-","L","e","i","s","t","u","n","g">>),
    KV(<<"l","a","d","e","z","e","i","t","_","s","t","u","n","d","e","n">>, <<"L","a","d","e","z","e","i","t">>),
    KV(<<"a","n","s","c","h","l","u","e","s","s","e">>, <<"A","n","s","c","h","l","u:","s","s","e">>),
    KV(<<"u","s","b","_","p","o","r","t","s">>, <<"U","S","B","-","A","n","s","c","h","l","u:","s","s","e">>),
    KV(<<"a","c","_","a","u","s","g","a","e","n","g","e">>, <<"A","C","-","A","u","s","g","a:","n","g","e">>),
    KV(<<"d","c","_","a","u","s","g","a","e","n","g","e">>, <<"D","C","-","A","u","s","g","a:","n","g","e">>),
    KV(<<"s","o","l","a","r","_","l","a","d","u","n","g">>, <<"S","o","l","a","r","-","L","a","d","u","n","g">>),
    KV(<<"s","o","l","a","r","_","e","i","n","g","a","n","g","_","m","a","x","_","w">>, <<"S","o","l","a","r","-","E","i","n","g","a","n","g"," ","m","a","x">>),
    KV(<<"n","e","t","z","_","l","a","d","u","n","g">>, <<"N","e","t","z","-","L","a","d","u","n","g">>),
    KV(<<"g","e","w","i","c","h","t","_","k","g">>, <<"G","e","w","i","c","h","t">>),
    KV(<<"a","b","m","e","s","s","u","n","g","e","n">>, <<"A","b","m","e","s","s","u","n","g","e","n">>),
    KV(<<"d","i","s","p","l","a","y">>, <<"D","i","s","p","l","a","y">>),
    KV(<<"a","p","p","_","s","t","e","u","e","r","u","n","g">>, <<"A","p","p","-","S","t","e","u","e","r","u","n","g">>),
    KV(<<"w","i","f","i">>, <<"W","L","A","N">>),
    KV(<<"b","l","u","e","t","o","o","t","h">>, <<"B","l","u","e","t","o","o","t","h">>),
    KV(<<"e","r","w","e","i","t","e","r","b","a","r">>, <<"E","r","w","e","i","t","e","r","b","a","r">>),
    KV(<<"z","y","k","l","u","s","l","e","b","e","n","s","d","a","u","e","r">>, <<"Z","y","k","l","e","n","l","e","b","e","n","s","d","a","u","e","r">>),
    KV(<<"s","e","l","b","s","t","l","o","e","s","c","h","e","n","d">>, <<"S","e","l","b","s","t","l","o:","s","c","h","e","n","d">>)
    >>

\* app.js lines 693-704
zubehoerLabels == <<
    KV(<<"t","y","p">>, <<"T","y","p">>),
    KV(<<"s","p","a","n","n","u","n","g","_","v">>, <<"S","p","a","n","n","u","n","g">>),
    KV(<<"s","t","r","o","m","_","a">>, <<"S","t","r","o","m">>),
    KV(<<"l","e","i","s","t","u","n","g","_","w">>, <<"L","e","i","s","t","u","n","g">>),
    KV(<<"s","c","h","u","t","z","k","l","a","s","s","e">>, <<"S","c","h","u","t","z","k","l","a","s","s","e">>),
    KV(<<"t","e","m","p","e","r","a","t","u","r","b","e","r","e","i","c","h">>, <<"T","e","m","p","e","r","a","t","u","r","b","e","r","e","i","c","h">>),
    KV(<<"a","n","s","c","h","l","u","s","s","a","r","t">>, <<"A","n","s","c","h","l","u","s","s","a","r","t">>),
    KV(<<"m","a","t","e","r","i","a","l">>, <<"M","a","t","e","r","i","a","l">>),
    KV(<<"a","b","m","e","s","s","u","n","g","e","n","_","m","m">>, <<"A","b","m","e","s","s","u","n","g","e","n">>),
    KV(<<"g","e","w","i","c","h","t","_","k","g">>, <<"G","e","w","i","c","h","t">>)
    >>

\* app.js lines 753-762
eigenschaftenLabels == <<
    KV(<<"n","o","t","s","t","r","o","m">>, <<"N","o","t","s","t","r","o","m">>),
    KV(<<"e","r","w","e","i","t","e","r","b","a","r">>, <<"E","r","w","e","i","t","e","r","b","a","r">>),
    KV(<<"m","o","d","u","l","a","r">>, <<"M","o","d","u","l","a","r">>),
    KV(<<"w","a","r","t","u","n","g","s","f","r","e","i">>, <<"W","a","r","t","u","n","g","s","f","r","e","i">>),
    KV(<<"a","p","p","_","s","t","e","u","e","r","u","n","g">>, <<"A","p","p","-","S","t","e","u","e","r","u","n","g">>),
    KV(<<"w","i","f","i">>, <<"W","L","A","N">>),
    KV(<<"b","l","u","e","t","o","o","t","h">>, <<"B","l","u","e","t","o","o","t","h">>),
    KV(<<"d","i","s","p","l","a","y">>, <<"D","i","s","p","l","a","y">>)
    >>

\* app.js lines 769-787
sicherheitLabels == <<
    KV(<<"s","c","h","u","t","z","k","l","a","s","s","e">>, <<"S","c","h","u","t","z","k","l","a","s","s","e">>),
    KV(<<"i","p","_","s","c","h","u","t","z","k","l","a","s","s","e">>, <<"I","P","-","S","c","h","u","t","z","k","l","a","s","s","e">>),
    KV(<<"s","c","h","u","t","z","a","r","t">>, <<"S","c","h","u","t","z","a","r","t">>),
    KV(<<"z","e","r","t","i","f","i","z","i","e","r","u","n","g","e","n">>, <<"Z","e","r","t","i","f","i","z","i","e","r","u","n","g","e","n">>),
    KV(<<"z","e","r","t","i","f","i","k","a","t","e">>, <<"Z","e","r","t","i","f","i","k","a","t","e">>),
    KV(<<"n","o","r","m","e","n">>, <<"N","o","r","m","e","n">>),
    KV(<<"v","d","e","_","n","o","r","m">>, <<"V","D","E","-","N","o","r","m">>),
    KV(<<"c","e","_","k","e","n","n","z","e","i","c","h","n","u","n","g">>, <<"C","E","-","K","e","n","n","z","e","i","c","h","n","u","n","g">>),
    KV(<<"t","u","e","v">>, <<"T","U:","V","-","Z","e","r","t","i","f","i","z","i","e","r","t">>),
    KV(<<"s","c","h","u","t","z","f","u","n","k","t","i","o","n","e","n">>, <<"S","c","h","u","t","z","f","u","n","k","t","i","o","n","e","n">>),
    KV(<<"u","e","b","e","r","s","p","a","n","n","u","n","g","s","s","c","h","u","t","z">>, <<"U:","b","e","r","s","p","a","n","n","u","n","g","s","s","c","h","u","t","z">>),
    KV(<<"k","u","r","z","s","c","h","l","u","s","s","s","c","h","u","t","z">>, <<"K","u","r","z","s","c","h","l","u","s","s","s","c","h","u","t","z">>),
    KV(<<"v","e","r","p","o","l","u","n","g","s","s","c","h","u","t","z">>, <<"V","e","r","p","o","l","u","n","g","s","s","c","h","u","t","z">>),
    KV(<<"t","i","e","f","e","n","t","l","a","d","e","s","c","h","u","t","z">>, <<"T","i","e","f","e","n","t","l","a","d","e","s","c","h","u","t","z">>),
    KV(<<"u","e","b","e","r","l","a","d","e","s","c","h","u","t","z">>, <<"U:","b","e","r","l","a","d","e","s","c","h","u","t","z">>),
    KV(<<"t","e","m","p","e","r","a","t","u","r","s","c","h","u","t","z">>, <<"T","e","m","p","e","r","a","t","u","r","s","c","h","u","t","z">>),
    KV(<<"s","e","l","b","s","t","l","o","e","s","c","h","e","n","d">>, <<"S","e","l","b","s","t","l","o:","s","c","h","e","n","d">>)
    >>

----------------------------------------------------------------------------
(* extractAllTechnicalSpecs.  The locals specs and seenKeys travel as one  *)
(* record st; threw tells that a TypeError ended the call, and offered is  *)
(* the history of what addSpec was called with.                            *)

\* mutation: seenKeys is kept from the call before
StaleSt == [specs |-> << >>, seenKeys |-> seenKeys, offered |-> << >>,
            threw |-> FALSE]

\* lines 246-247: the locals of a call
EmptySt == [specs |-> << >>, seenKeys |-> {}, offered |-> << >>,
            threw |-> FALSE]
Throw(st) == [st EXCEPT !.threw = TRUE]

\* the value addSpec stores for a truthy value
displayValueOf(label, value) ==
    IF toLowerCase(label) = <<"z","y","k","l","e","n","l","e","b","e","n","s","d","a","u","e","r">> /\ IsObject(value)
    THEN IF Len(Entries(value)) > 0
         THEN join([i \in 1..Len(Entries(value)) |->
                       Entries(value)[i].k \o <<" ","-"," ">>
                           \o StringOf(Entries(value)[i].v)], <<","," ">>)
         ELSE JSONstringify(value)
    ELSE IF value.t = "bool" THEN (IF value.v THEN <<"J","a">> ELSE <<"N","e","i","n">>)
    ELSE IF value.t = "num" THEN numToString(value.v)
    ELSE IF IsObject(value) THEN JSONstringify(value)
    ELSE StringOf(value)

\* history: every call of addSpec whose value is not null, undefined or ''
noteOffered(st, label, value, priority) ==
    IF IsEmptyField(value) THEN st
    ELSE [st EXCEPT !.offered = Append(@, [label |-> label, value |-> value,
                                           priority |-> priority])]

pushSpec(st, label, value, priority) ==
    [st EXCEPT
        !.specs = Append(@, [label |-> label,
                             value |-> displayValueOf(label, value),
                             priority |-> priority]),
        !.seenKeys = @ \cup {toLowerCase(label)}]

\* mutation: the duplicate test compares the labels as written
addSpecCaseSensitive(st, label, value, priority) ==
    IF Falsy(value) THEN noteOffered(st, label, value, priority)
    ELSE IF label \in st.seenKeys
    THEN noteOffered(st, label, value, priority)
    ELSE [pushSpec(noteOffered(st, label, value, priority),
                   label, value, priority)
            EXCEPT !.seenKeys = st.seenKeys \cup {label}]

addSpec(st, label, value, priority) ==
    IF Falsy(value) THEN noteOffered(st, label, value, priority)
    ELSE IF toLowerCase(label) \in st.seenKeys
    THEN noteOffered(st, label, value, priority)
    ELSE pushSpec(noteOffered(st, label, value, priority),
                  label, value, priority)

\* labelMapping[key], << >> when the table has no such key
lookupLabel(labelMapping, key) ==
    IF \E i \in 1..Len(labelMapping) : labelMapping[i].k = key
    THEN labelMapping[CHOOSE i \in 1..Len(labelMapping) :
                          labelMapping[i].k = key].v
    ELSE << >>

\* key.replace(/_/g, ' ').replace(/([A-Z])/g, ' $1')
\*    .replace(/^./, str => str.toUpperCase()).trim()
autoLabel(key) ==
    trim(capitalizeFirst(spaceBeforeCapitals(replaceAllChar(key, "_", <<" ">>))))

fieldLabel(labelMapping, key) ==
    IF lookupLabel(labelMapping, key) # << >>
    THEN lookupLabel(labelMapping, key) ELSE autoLabel(key)

\* mutation: a number is shown without the unit of its field
numberWithUnitBare(key, n) == numToString(n)

\* the unit chain of a top-level numeric field
numberWithUnit(key, n) ==
    IF includes(key, <<"_","k","w","h">>) \/ includes(key, <<"k","a","p","a","z","i","t","a","e","t">>)
    THEN numToString(n) \o <<" ","k","W","h">>
    ELSE IF includes(key, <<"_","v">>) \/ includes(key, <<"s","p","a","n","n","u","n","g">>)
    THEN numToString(n) \o <<" ","V">>
    ELSE IF includes(key, <<"_","w">>) \/ includes(key, <<"l","e","i","s","t","u","n","g">>)
    THEN numToString(n) \o <<" ","W">>
    ELSE IF includes(key, <<"_","a">>) \/ includes(key, <<"s","t","r","o","m">>)
    THEN numToString(n) \o <<" ","A">>
    ELSE IF includes(key, <<"_","k","g">>) \/ includes(key, <<"g","e","w","i","c","h","t">>)
    THEN numToString(n) \o <<" ","k","g">>
    ELSE IF includes(key, <<"_","c","m">>) \/ includes(key, <<"l","a","e","n","g","e">>)
            \/ includes(key, <<"b","r","e","i","t","e">>) \/ includes(key, <<"h","o","e","h","e">>)
    THEN numToString(n) \o <<" ","c","m">>
    ELSE IF includes(key, <<"_","h","z">>) \/ includes(key, <<"f","r","e","q","u","e","n","z">>)
    THEN numToString(n) \o <<" ","H","z">>
    ELSE IF includes(key, <<"w","i","r","k","u","n","g","s","g","r","a","d">>) \/ includes(key, <<"e","n","t","l","a","d","e","t","i","e","f","e">>)
            \/ includes(key, <<"p","r","o","z","e","n","t">>)
    THEN numToString(n) \o <<"%">>
    ELSE numToString(n)

\* "SubLabel: value" of one field of a nested mapping; percent tells
\* whether the copy of the rule knows the wirkungsgrad unit
subFieldPart(key, value, percent) ==
    LET label == capitalizeFirst(replaceAllChar(key, "_", <<" ">>))
        shown ==
            IF value.t = "bool" THEN (IF value.v THEN <<"J","a">> ELSE <<"N","e","i","n">>)
            ELSE IF value.t = "num"
            THEN IF includes(key, <<"k","w","h">>) \/ includes(key, <<"k","a","p","a","z","i","t","a","e","t">>)
                 THEN numToString(value.v) \o <<" ","k","W","h">>
                 ELSE IF includes(key, <<"_","w">>) \/ includes(key, <<"l","e","i","s","t","u","n","g">>)
                 THEN numToString(value.v) \o <<" ","W">>
                 ELSE IF includes(key, <<"_","v">>) \/ includes(key, <<"s","p","a","n","n","u","n","g">>)
                 THEN numToString(value.v) \o <<" ","V">>
                 ELSE IF percent /\ includes(key, <<"w","i","r","k","u","n","g","s","g","r","a","d">>)
                 THEN numToString(value.v) \o <<"%">>
                 ELSE numToString(value.v)
            ELSE StringOf(value)
    IN label \o <<":"," ">> \o shown

\* the parts of the non-empty fields of a mapping, in entry order
RECURSIVE subFieldParts(_, _)
subFieldParts(entries, percent) ==
    IF entries = << >> THEN << >>
    ELSE (IF IsEmptyField(Head(entries).v) THEN << >>
          ELSE <<subFieldPart(Head(entries).k, Head(entries).v, percent)>>)
         \o subFieldParts(Tail(entries), percent)

\* the string extractFieldsFromObject hands to addSpec for one field
fieldDisplayValue(key, value) ==
    IF value.t = "arr"
    THEN join([i \in 1..Len(value.v) |->
                  IF value.v[i].t \in {"null", "undef"} THEN << >>
                  ELSE StringOf(value.v[i])], <<","," ">>)
    ELSE IF value.t = "bool" THEN (IF value.v THEN <<"J","a">> ELSE <<"N","e","i","n">>)
    ELSE IF value.t = "num" THEN numberWithUnit(key, value.v)
    ELSE IF value.t = "obj"
    THEN join(subFieldParts(Entries(value), TRUE), <<","," ">>)
    ELSE StringOf(value)

RECURSIVE extractEntries(_, _, _, _)
extractEntries(st, entries, labelMapping, priority) ==
    IF entries = << >> THEN st
    ELSE LET key == Head(entries).k
             value == Head(entries).v
             skipped == \/ IsEmptyField(value)
                        \/ startsWith(key, <<"_">>)
                        \/ key = <<"q","u","e","l","l","e">>
                        \/ (value.t = "arr" /\ value.v = << >>)
             next == IF skipped THEN st
                     ELSE addSpec(st, fieldLabel(labelMapping, key),
                                  Str(fieldDisplayValue(key, value)),
                                  priority)
         IN extractEntries(next, Tail(entries), labelMapping, priority)

extractFieldsFromObject(st, obj, labelMapping, priority) ==
    IF Falsy(obj) \/ ~IsObject(obj) THEN st
    ELSE extractEntries(st, Entries(obj), labelMapping, priority)

\* (product.produkttyp || '').toLowerCase(): a truthy value that is no
\* string has no toLowerCase
produkttypThrows(prod) ==
    \/ prod.t \in {"null", "undef"}
    \/ (Truthy(Get(prod, <<"p","r","o","d","u","k","t","t","y","p">>)) /\ Get(prod, <<"p","r","o","d","u","k","t","t","y","p">>).t # "str")
produkttypOf(prod) ==
    IF Get(prod, <<"p","r","o","d","u","k","t","t","y","p">>).t = "str"
    THEN toLowerCase(Get(prod, <<"p","r","o","d","u","k","t","t","y","p">>).v) ELSE << >>

----------------------------------------------------------------------------
(* 0. set products, lines 365-446 *)

isSetPayload(p) ==
    \/ Truthy(Get(p, <<"i","s","t","_","s","e","t">>))
    \/ Truthy(Get(p, <<"s","e","t","_","s","p","e","z","i","f","i","k","a","t","i","o","n","e","n">>))
    \/ Truthy(Get(p, <<"s","e","t","_","g","e","s","a","m","t">>))
    \/ Truthy(Get(p, <<"k","o","m","p","o","n","e","n","t","e","n","_","s","p","e","z","i","f","i","k","a","t","i","o","n","e","n">>))

setSpecsOf(p) == OrElse(Get(p, <<"s","e","t","_","s","p","e","z","i","f","i","k","a","t","i","o","n","e","n">>), Obj(<< >>))
setGesamtOf(p) ==
    OrElse(OrElse(Get(p, <<"s","e","t","_","g","e","s","a","m","t">>), Get(setSpecsOf(p), <<"s","e","t","_","g","e","s","a","m","t">>)),
           Obj(<< >>))
komponentenOf(p) ==
    OrElse(OrElse(Get(p, <<"k","o","m","p","o","n","e","n","t","e","n","_","s","p","e","z","i","f","i","k","a","t","i","o","n","e","n">>),
                  Get(setSpecsOf(p), <<"k","o","m","p","o","n","e","n","t","e","n">>)), Obj(<< >>))
setTypOf(p) ==
    OrElse(OrElse(Get(p, <<"s","e","t","_","t","y","p","_","d","e","t","a","i","l">>), Get(setSpecsOf(p), <<"s","e","t","_","t","y","p">>)),
           Str(<< >>))
erkannteTypenOf(p) ==
    OrElse(OrElse(Get(p, <<"e","r","k","a","n","n","t","e","_","k","o","m","p","o","n","e","n","t","e","n","_","t","y","p","e","n">>),
                  Get(setSpecsOf(p), <<"e","r","k","a","n","n","t","e","_","t","y","p","e","n">>)), Arr(<< >>))

\* lines 373-375: setTyp.replace exists on a string only
setTypStep(st, p) ==
    LET setTyp == setTypOf(p)
    IN IF Falsy(setTyp) THEN st
       ELSE IF setTyp.t # "str" THEN Throw(st)
       ELSE addSpec(st, <<"S","e","t","-","T","y","p">>,
                Str(capitalizeFirst(replaceAllChar(setTyp.v, "_", <<" ">>))), 100)

\* lines 378-380: a string has a length and no map; t.replace exists on a
\* string element only
erkannteTypenStep(st, p) ==
    LET typen == erkannteTypenOf(p)
    IN IF typen.t = "str" /\ Len(typen.v) > 0 THEN Throw(st)
       ELSE IF typen.t = "arr" /\ Len(typen.v) > 0
       THEN IF \E i \in 1..Len(typen.v) : typen.v[i].t # "str"
            THEN Throw(st)
            ELSE addSpec(st, <<"E","n","t","h","a:","l","t">>,
                     Str(join([i \in 1..Len(typen.v) |->
                                  capitalizeFirst(typen.v[i].v)], <<","," ">>)), 99)
       ELSE st

\* lines 383-408
setGesamtStep(st, p) ==
    LET setGesamt == setGesamtOf(p)
        parts == subFieldParts(Entries(setGesamt), FALSE)
    IN IF Truthy(setGesamt) /\ IsObject(setGesamt)
          /\ Len(Entries(setGesamt)) > 0 /\ Len(parts) > 0
       THEN addSpec(st, <<"S","e","t"," ","g","e","s","a","m","t">>, Str(join(parts, <<","," ">>)), 98)
       ELSE st

\* lines 413-444: the loop over the components, kompPriority counting down
RECURSIVE komponentenLoop(_, _, _)
komponentenLoop(st, entries, kompPriority) ==
    IF entries = << >> THEN st
    ELSE LET kompTyp == Head(entries).k
             kompSpecs == Head(entries).v
             parts == subFieldParts(Entries(kompSpecs), TRUE)
             emits == Truthy(kompSpecs) /\ IsObject(kompSpecs)
                      /\ Len(Entries(kompSpecs)) > 0 /\ Len(parts) > 0
         IN IF emits
            THEN komponentenLoop(
                     addSpec(st,
                         capitalizeFirst(replaceAllChar(kompTyp, "_", <<" ">>)),
                         Str(join(parts, <<","," ">>)), kompPriority),
                     Tail(entries), kompPriority - 1)
            ELSE komponentenLoop(st, Tail(entries), kompPriority)

\* mutation: the first component gets the priority 96
komponentenStepLow(st, p) ==
    LET komponenten == komponentenOf(p)
    IN IF Truthy(komponenten) /\ IsObject(komponenten)
       THEN komponentenLoop(st, Entries(komponenten), 96)
       ELSE st

komponentenStep(st, p) ==
    LET komponenten == komponentenOf(p)
    IN IF Truthy(komponenten) /\ IsObject(komponenten)
       THEN komponentenLoop(st, Entries(komponenten), 97)
       ELSE st

\* a statement runs only when none before it threw
Then(st, next) == IF st.threw THEN st ELSE next

setBlock(st, p) ==
    IF p.t \in {"null", "undef"} THEN Throw(st)
    ELSE IF ~isSetPayload(p) THEN st
    ELSE LET s1 == setTypStep(st, p)
             s2 == Then(s1, erkannteTypenStep(s1, p))
             s3 == Then(s2, setGesamtStep(s2, p))
         IN Then(s3, komponentenStep(s3, p))

----------------------------------------------------------------------------
(* 1. the category tables, lines 454-708 *)

\* the if statements of lines 475-706: category, payload key, table
categoryTable == <<
    <<<<"b","a","t","t","e","r","i","e">>, <<"b","a","t","t","e","r","i","e","_","s","p","e","z","i","f","i","k","a","t","i","o","n","e","n">>, batterieLabels>>,
    <<<<"w","e","c","h","s","e","l","r","i","c","h","t","e","r">>, <<"w","e","c","h","s","e","l","r","i","c","h","t","e","r","_","s","p","e","z","i","f","i","k","a","t","i","o","n","e","n">>,
      wechselrichterLabels>>,
    <<<<"h","y","b","r","i","d","w","e","c","h","s","e","l","r","i","c","h","t","e","r">>, <<"h","y","b","r","i","d","w","e","c","h","s","e","l","r","i","c","h","t","e","r","_","s","p","e","z","i","f","i","k","a","t","i","o","n","e","n">>,
      hybridwechselrichterLabels>>,
    <<<<"s","p","e","i","c","h","e","r","s","y","s","t","e","m">>, <<"s","p","e","i","c","h","e","r","s","y","s","t","e","m","_","s","p","e","z","i","f","i","k","a","t","i","o","n","e","n">>,
      speichersystemLabels>>,
    <<<<"s","o","l","a","r","m","o","d","u","l">>, <<"s","o","l","a","r","m","o","d","u","l","_","s","p","e","z","i","f","i","k","a","t","i","o","n","e","n">>, solarmodulLabels>>,
    <<<<"l","a","d","e","r","e","g","l","e","r">>, <<"l","a","d","e","r","e","g","l","e","r","_","s","p","e","z","i","f","i","k","a","t","i","o","n","e","n">>, ladereglerLabels>>,
    <<<<"s","p","a","n","n","u","n","g","s","w","a","n","d","l","e","r">>, <<"s","p","a","n","n","u","n","g","s","w","a","n","d","l","e","r","_","s","p","e","z","i","f","i","k","a","t","i","o","n","e","n">>,
      spannungswandlerLabels>>,
    <<<<"m","i","k","r","o","w","e","c","h","s","e","l","r","i","c","h","t","e","r">>, <<"m","i","k","r","o","w","e","c","h","s","e","l","r","i","c","h","t","e","r","_","s","p","e","z","i","f","i","k","a","t","i","o","n","e","n">>,
      mikrowechselrichterLabels>>,
    <<<<"s","t","r","i","n","g","w","e","c","h","s","e","l","r","i","c","h","t","e","r">>, <<"s","t","r","i","n","g","w","e","c","h","s","e","l","r","i","c","h","t","e","r","_","s","p","e","z","i","f","i","k","a","t","i","o","n","e","n">>,
      stringwechselrichterLabels>>,
    <<<<"p","o","w","e","r","s","t","a","t","i","o","n">>, <<"p","o","w","e","r","s","t","a","t","i","o","n","_","s","p","e","z","i","f","i","k","a","t","i","o","n","e","n">>, powerstationLabels>>,
    <<<<"z","u","b","e","h","o","e","r">>, <<"t","e","c","h","n","i","s","c","h","e","_","s","p","e","z","i","f","i","k","a","t","i","o","n","e","n">>, zubehoerLabels>>
    >>

RECURSIVE categoryLoop(_, _, _, _)
categoryLoop(st, typ, p, table) ==
    IF table = << >> THEN st
    ELSE LET row == Head(table)
             next == IF typ = row[1] /\ Truthy(Get(p, row[2]))
                     THEN extractFieldsFromObject(st, Get(p, row[2]),
                                                  row[3], 10)
                     ELSE st
         IN categoryLoop(next, typ, p, Tail(table))

categoryBlock(st, typ, p) == categoryLoop(st, typ, p, categoryTable)

----------------------------------------------------------------------------
(* the fallback for unknown categories, lines 713-730 *)

bekannteSpezifikationen == {
    <<"b","a","t","t","e","r","i","e","_","s","p","e","z","i","f","i","k","a","t","i","o","n","e","n">>, <<"w","e","c","h","s","e","l","r","i","c","h","t","e","r","_","s","p","e","z","i","f","i","k","a","t","i","o","n","e","n">>,
    <<"h","y","b","r","i","d","w","e","c","h","s","e","l","r","i","c","h","t","e","r","_","s","p","e","z","i","f","i","k","a","t","i","o","n","e","n">>, <<"s","p","e","i","c","h","e","r","s","y","s","t","e","m","_","s","p","e","z","i","f","i","k","a","t","i","o","n","e","n">>,
    <<"s","o","l","a","r","m","o","d","u","l","_","s","p","e","z","i","f","i","k","a","t","i","o","n","e","n">>, <<"l","a","d","e","r","e","g","l","e","r","_","s","p","e","z","i","f","i","k","a","t","i","o","n","e","n">>,
    <<"s","p","a","n","n","u","n","g","s","w","a","n","d","l","e","r","_","s","p","e","z","i","f","i","k","a","t","i","o","n","e","n">>, <<"m","i","k","r","o","w","e","c","h","s","e","l","r","i","c","h","t","e","r","_","s","p","e","z","i","f","i","k","a","t","i","o","n","e","n">>,
    <<"s","t","r","i","n","g","w","e","c","h","s","e","l","r","i","c","h","t","e","r","_","s","p","e","z","i","f","i","k","a","t","i","o","n","e","n">>, <<"p","o","w","e","r","s","t","a","t","i","o","n","_","s","p","e","z","i","f","i","k","a","t","i","o","n","e","n">>,
    <<"t","e","c","h","n","i","s","c","h","e","_","s","p","e","z","i","f","i","k","a","t","i","o","n","e","n">>, <<"s","e","t","_","s","p","e","z","i","f","i","k","a","t","i","o","n","e","n">>,
    <<"k","o","m","p","o","n","e","n","t","e","n","_","s","p","e","z","i","f","i","k","a","t","i","o","n","e","n">>}

RECURSIVE fallbackLoop(_, _)
fallbackLoop(st, entries) ==
    IF entries = << >> THEN st
    ELSE LET key == Head(entries).k
             specData == Head(entries).v
             next == IF endsWith(key, <<"_","s","p","e","z","i","f","i","k","a","t","i","o","n","e","n">>)
                        /\ key \notin bekannteSpezifikationen
                        /\ Truthy(specData) /\ IsObject(specData)
                     THEN extractFieldsFromObject(st, specData, << >>, 8)
                     ELSE st
         IN fallbackLoop(next, Tail(entries))

fallbackBlock(st, p) == fallbackLoop(st, Entries(p))

----------------------------------------------------------------------------
(* 2.-6. the fixed blocks, lines 733-818 *)

\* s.field ? `${s.field}<unit>` : null
withUnit(x, unit) == IF Truthy(x) THEN Str(StringOf(x) \o unit) ELSE Null

technischeBlock(st, p) ==
    LET s == Get(p, <<"t","e","c","h","n","i","s","c","h","e","_","s","p","e","z","i","f","i","k","a","t","i","o","n","e","n">>)
        a1 == addSpec(st, <<"N","e","n","n","l","e","i","s","t","u","n","g">>,
                      withUnit(Get(s, <<"n","e","n","n","l","e","i","s","t","u","n","g","_","w">>), <<" ","W">>), 5)
        a2 == addSpec(a1, <<"M","a","x","."," ","L","e","i","s","t","u","n","g">>,
                      withUnit(Get(s, <<"m","a","x","_","l","e","i","s","t","u","n","g","_","w">>), <<" ","W">>), 5)
        a3 == addSpec(a2, <<"E","i","n","g","a","n","g","s","s","p","a","n","n","u","n","g">>,
                      withUnit(Get(s, <<"e","i","n","g","a","n","g","s","s","p","a","n","n","u","n","g","_","v">>), <<" ","V">>), 5)
        a4 == addSpec(a3, <<"A","u","s","g","a","n","g","s","s","p","a","n","n","u","n","g">>, Get(s, <<"a","u","s","g","a","n","g","s","s","p","a","n","n","u","n","g","_","v">>), 5)
        a5 == addSpec(a4, <<"E","i","n","g","a","n","g","s","s","t","r","o","m">>,
                      withUnit(Get(s, <<"e","i","n","g","a","n","g","s","s","t","r","o","m","_","a">>), <<" ","A">>), 5)
        a6 == addSpec(a5, <<"A","u","s","g","a","n","g","s","s","t","r","o","m">>,
                      withUnit(Get(s, <<"a","u","s","g","a","n","g","s","s","t","r","o","m","_","a">>), <<" ","A">>), 5)
        a7 == addSpec(a6, <<"W","i","r","k","u","n","g","s","g","r","a","d">>,
                      withUnit(Get(s, <<"w","i","r","k","u","n","g","s","g","r","a","d">>), <<"%">>), 5)
        a8 == addSpec(a7, <<"W","e","l","l","e","n","f","o","r","m">>, Get(s, <<"w","e","l","l","e","n","f","o","r","m">>), 5)
        a9 == addSpec(a8, <<"P","h","a","s","e","n">>, Get(s, <<"p","h","a","s","e","n">>), 5)
        a10 == addSpec(a9, <<"F","r","e","q","u","e","n","z">>, withUnit(Get(s, <<"f","r","e","q","u","e","n","z","_","h","z">>), <<" ","H","z">>), 5)
        a11 == addSpec(a10, <<"M","P","P","T">>, Get(s, <<"m","p","p","t">>), 5)
        a12 == addSpec(a11, <<"M","P","P","T"," ","S","p","a","n","n","u","n","g">>, Get(s, <<"m","p","p","t","_","s","p","a","n","n","u","n","g","_","v">>), 5)
        a13 == addSpec(a12, <<"M","P","P","T"," ","A","n","z","a","h","l">>, Get(s, <<"m","p","p","t","_","a","n","z","a","h","l">>), 5)
        a14 == addSpec(a13, <<"S","c","h","u","t","z","k","l","a","s","s","e">>, Get(s, <<"s","c","h","u","t","z","k","l","a","s","s","e">>), 5)
    IN IF Falsy(s) THEN st
       ELSE addSpec(a14, <<"T","e","m","p","e","r","a","t","u","r","b","e","r","e","i","c","h">>, Get(s, <<"t","e","m","p","e","r","a","t","u","r","b","e","r","e","i","c","h">>), 5)

eigenschaftenBlock(st, p) ==
    IF Truthy(Get(p, <<"e","i","g","e","n","s","c","h","a","f","t","e","n">>))
    THEN extractFieldsFromObject(st, Get(p, <<"e","i","g","e","n","s","c","h","a","f","t","e","n">>),
                                 eigenschaftenLabels, 3)
    ELSE st

sicherheitBlock(st, p) ==
    LET s1 == IF Truthy(Get(p, <<"s","i","c","h","e","r","h","e","i","t">>))
              THEN extractFieldsFromObject(st, Get(p, <<"s","i","c","h","e","r","h","e","i","t">>),
                                           sicherheitLabels, 2)
              ELSE st
        s2 == addSpec(s1, <<"I","P","-","S","c","h","u","t","z","k","l","a","s","s","e">>, Get(p, <<"i","p","_","s","c","h","u","t","z","k","l","a","s","s","e">>), 2)
        s3 == addSpec(s2, <<"Z","e","r","t","i","f","i","k","a","t","e">>, Get(p, <<"z","e","r","t","i","f","i","k","a","t","e">>), 2)
    IN addSpec(s3, <<"N","o","r","m","e","n">>, Get(p, <<"n","o","r","m","e","n">>), 2)

\* if (payload.X && payload.X > 0) addSpec(label, `${payload.X} unit`, 1)
dimension(st, p, key, label, unit) ==
    IF Truthy(Get(p, key)) /\ GreaterThanZero(Get(p, key))
    THEN addSpec(st, label, Str(StringOf(Get(p, key)) \o unit), 1)
    ELSE st

abmessungenBlock(st, p) ==
    LET d1 == dimension(st, p, <<"L","a","e","n","g","e","_","c","m">>, <<"L","a:","n","g","e">>, <<" ","c","m">>)
        d2 == dimension(d1, p, <<"B","r","e","i","t","e","_","c","m">>, <<"B","r","e","i","t","e">>, <<" ","c","m">>)
        d3 == dimension(d2, p, <<"H","o","e","h","e","_","c","m">>, <<"H","o:","h","e">>, <<" ","c","m">>)
        d4 == dimension(d3, p, <<"A","r","t","i","k","e","l","g","e","w","i","c","h","t","_","k","g">>, <<"G","e","w","i","c","h","t">>, <<" ","k","g">>)
    IN dimension(d4, p, <<"V","e","r","s","a","n","d","g","e","w","i","c","h","t","_","k","g">>, <<"V","e","r","s","a","n","d","g","e","w","i","c","h","t">>, <<" ","k","g">>)

allgemeinBlock(st, p) ==
    LET g1 == addSpec(st, <<"Q","u","a","l","i","t","a:","t">>, Get(p, <<"q","u","a","l","i","t","a","e","t">>), 0)
        g2 == addSpec(g1, <<"V","o","l","l","s","t","a:","n","d","i","g">>,
                  IF Get(p, <<"v","o","l","l","s","t","a","e","n","d","i","g">>).t # "undef"
                  THEN (IF Truthy(Get(p, <<"v","o","l","l","s","t","a","e","n","d","i","g">>))
                        THEN Str(<<"J","a">>) ELSE Str(<<"N","e","i","n">>))
                  ELSE Null, 0)
    IN addSpec(g2, <<"P","D","F","-","D","o","k","u","m","e","n","t","e">>, Get(p, <<"p","d","f","_","c","o","u","n","t">>), 0)

----------------------------------------------------------------------------
(* the final sort, lines 821-824 *)

\* mutation: the comparison without the label tie-break
compareSpecsPriorityOnly(a, b) == b.priority - a.priority

\* the comparison function handed to specs.sort
compareSpecs(a, b) ==
    IF b.priority # a.priority THEN b.priority - a.priority
    ELSE localeCompare(a.label, b.label)

\* Array.prototype.sort is stable: x goes behind the entries it does not
\* precede
RECURSIVE insertSorted(_, _)
insertSorted(sorted, x) ==
    IF sorted = << >> THEN <<x>>
    ELSE IF compareSpecs(x, Head(sorted)) < 0 THEN <<x>> \o sorted
    ELSE <<Head(sorted)>> \o insertSorted(Tail(sorted), x)

RECURSIVE sortSpecs(_)
sortSpecs(s) ==
    IF s = << >> THEN << >>
    ELSE insertSorted(sortSpecs(SubSeq(s, 1, Len(s) - 1)), s[Len(s)])

----------------------------------------------------------------------------
(* The calls of extractAllTechnicalSpecs that are checked: a product       *)
(* record and a payload put together from at most MaxFields of the fields  *)
(* of FieldPool, in the pool's order or in the reverse order.              *)

MaxFields == 2

\* one field of a payload: blk is the mapping of the payload that holds it,
\* << >> for a field of the payload itself
Field(blk, key, val) == [blk |-> blk, key |-> key, val |-> val]

FieldPool == <<
    Field(<<"b","a","t","t","e","r","i","e","_","s","p","e","z","i","f","i","k","a","t","i","o","n","e","n">>, <<"g","e","w","i","c","h","t","_","k","g">>, Num(5)),
    Field(<<"b","a","t","t","e","r","i","e","_","s","p","e","z","i","f","i","k","a","t","i","o","n","e","n">>, <<"b","m","s">>, Bool(TRUE)),
    Field(<<"b","a","t","t","e","r","i","e","_","s","p","e","z","i","f","i","k","a","t","i","o","n","e","n">>, <<"k","a","p","a","z","i","t","a","e","t","_","k","w","h">>, Num(5)),
    Field(<<"b","a","t","t","e","r","i","e","_","s","p","e","z","i","f","i","k","a","t","i","o","n","e","n">>, <<"g","e","w","i","c","h","t">>, Num(7)),
    Field(<<"b","a","t","t","e","r","i","e","_","s","p","e","z","i","f","i","k","a","t","i","o","n","e","n">>, <<"z","y","k","l","u","s","l","e","b","e","n","s","d","a","u","e","r">>,
          Obj(<<KV(<<"8","0","%">>, Num(2500)), KV(<<"7","0","%">>, Num(3000))>>)),
    Field(<<"t","e","c","h","n","i","s","c","h","e","_","s","p","e","z","i","f","i","k","a","t","i","o","n","e","n">>, <<"m","p","p","t">>, Bool(FALSE)),
    Field(<<"t","e","c","h","n","i","s","c","h","e","_","s","p","e","z","i","f","i","k","a","t","i","o","n","e","n">>, <<"m","p","p","t">>, Bool(TRUE)),
    Field(<<"t","e","c","h","n","i","s","c","h","e","_","s","p","e","z","i","f","i","k","a","t","i","o","n","e","n">>, <<"s","c","h","u","t","z","k","l","a","s","s","e">>, Str(<<"I","P","6","5">>)),
    Field(<<"t","e","c","h","n","i","s","c","h","e","_","s","p","e","z","i","f","i","k","a","t","i","o","n","e","n">>, <<"g","e","w","i","c","h","t","_","k","g">>, Num(2)),
    Field(<<"t","e","c","h","n","i","s","c","h","e","_","s","p","e","z","i","f","i","k","a","t","i","o","n","e","n">>, <<"p","h","a","s","e","n">>, Num(0)),
    Field(<<"t","e","c","h","n","i","s","c","h","e","_","s","p","e","z","i","f","i","k","a","t","i","o","n","e","n">>, <<"m","p","p","t","_","a","n","z","a","h","l">>, Num(2)),
    Field(<<"w","a","e","r","m","e","p","u","m","p","e","_","s","p","e","z","i","f","i","k","a","t","i","o","n","e","n">>, <<"g","e","w","i","c","h","t">>, Num(9)),
    Field(<<"w","a","e","r","m","e","p","u","m","p","e","_","s","p","e","z","i","f","i","k","a","t","i","o","n","e","n">>, <<"s","c","h","u","t","z","k","l","a","s","s","e">>, Str(<< >>)),
    Field(<<"w","a","e","r","m","e","p","u","m","p","e","_","s","p","e","z","i","f","i","k","a","t","i","o","n","e","n">>, <<"h","e","i","z","s","t","a","b">>, Obj(<< >>)),
    Field(<<"w","a","e","r","m","e","p","u","m","p","e","_","s","p","e","z","i","f","i","k","a","t","i","o","n","e","n">>, <<"m","a","x","V","o","r","l","a","u","f">>, Num(55)),
    Field(<<"e","i","g","e","n","s","c","h","a","f","t","e","n">>, <<"m","p","p","t">>, Bool(TRUE)),
    Field(<<"e","i","g","e","n","s","c","h","a","f","t","e","n">>, <<"n","o","t","s","t","r","o","m">>, Bool(FALSE)),
    Field(<<"s","i","c","h","e","r","h","e","i","t">>, <<"s","c","h","u","t","z","k","l","a","s","s","e">>, Str(<<"I","P","2","0">>)),
    Field(<<"s","i","c","h","e","r","h","e","i","t">>, <<"z","e","r","t","i","f","i","k","a","t","e">>, Arr(<<Str(<<"C","E">>), Str(<<"V","D","E">>)>>)),
    Field(<<"s","i","c","h","e","r","h","e","i","t">>, <<"n","o","r","m","e","n">>, Null),
    Field(<< >>, <<"z","e","r","t","i","f","i","k","a","t","e">>, Arr(<<Str(<<"C","E">>)>>)),
    Field(<< >>, <<"A","r","t","i","k","e","l","g","e","w","i","c","h","t","_","k","g">>, Num(3)),
    Field(<< >>, <<"L","a","e","n","g","e","_","c","m">>, Str(<<"1","2">>)),
    Field(<< >>, <<"q","u","a","l","i","t","a","e","t">>, Str(<<"h","o","c","h">>)),
    Field(<< >>, <<"v","o","l","l","s","t","a","e","n","d","i","g">>, Bool(FALSE)),
    Field(<< >>, <<"i","s","t","_","s","e","t">>, Bool(TRUE)),
    Field(<< >>, <<"s","e","t","_","t","y","p","_","d","e","t","a","i","l">>, Str(<<"p","v","_","s","e","t">>)),
    Field(<< >>, <<"s","e","t","_","t","y","p","_","d","e","t","a","i","l">>, Num(3)),
    Field(<< >>, <<"e","r","k","a","n","n","t","e","_","k","o","m","p","o","n","e","n","t","e","n","_","t","y","p","e","n">>,
          Arr(<<Str(<<"b","a","t","t","e","r","i","e">>), Str(<<"s","o","l","a","r","m","o","d","u","l">>)>>)),
    Field(<< >>, <<"e","r","k","a","n","n","t","e","_","k","o","m","p","o","n","e","n","t","e","n","_","t","y","p","e","n">>, Arr(<<Num(1)>>)),
    Field(<< >>, <<"s","e","t","_","g","e","s","a","m","t">>, Obj(<<KV(<<"l","e","i","s","t","u","n","g","_","w">>, Num(800))>>)),
    Field(<<"k","o","m","p","o","n","e","n","t","e","n","_","s","p","e","z","i","f","i","k","a","t","i","o","n","e","n">>, <<"b","a","t","t","e","r","i","e">>,
          Obj(<<KV(<<"k","a","p","a","z","i","t","a","e","t","_","k","w","h">>, Num(5))>>)),
    Field(<<"k","o","m","p","o","n","e","n","t","e","n","_","s","p","e","z","i","f","i","k","a","t","i","o","n","e","n">>, <<"w","e","c","h","s","e","l","r","i","c","h","t","e","r">>,
          Obj(<<KV(<<"l","e","i","s","t","u","n","g","_","w">>, Num(800)), KV(<<"n","o","t","s","t","r","o","m">>, Bool(TRUE))>>))
    >>

\* the declared categories tried, a number standing for a produkttyp that
\* is no string
ProdukttypPool == {Undefined, Str(<<"b","a","t","t","e","r","i","e">>), Str(<<"Z","u","b","e","h","o","e","r">>),
                   Str(<<"w","e","c","h","s","e","l","r","i","c","h","t","e","r">>), Str(<<"w","a","e","r","m","e","p","u","m","p","e">>), Num(5)}

\* obj with field f put where JSON text naming f last would put it
putField(obj, f) ==
    LET e == obj.v
    IN IF f.blk = << >> THEN Obj(Append(e, KV(f.key, f.val)))
       ELSE IF \E i \in 1..Len(e) : e[i].k = f.blk
       THEN Obj([i \in 1..Len(e) |->
                   IF e[i].k = f.blk
                   THEN KV(f.blk, Obj(Append(e[i].v.v, KV(f.key, f.val))))
                   ELSE e[i]])
       ELSE Obj(Append(e, KV(f.blk, Obj(<<KV(f.key, f.val)>>))))

\* the payload holding the fields of the pool whose indices are in chosen
RECURSIVE buildPayload(_, _, _)
buildPayload(obj, chosen, reversed) ==
    IF chosen = {} THEN obj
    ELSE LET i == IF reversed
                  THEN CHOOSE x \in chosen : \A y \in chosen : x >= y
                  ELSE CHOOSE x \in chosen : \A y \in chosen : x <= y
         IN buildPayload(putField(obj, FieldPool[i]), chosen \ {i}, reversed)

\* no object holds a key twice
Choosable(chosen) ==
    \A i, j \in chosen :
        (i # j) => << FieldPool[i].blk, FieldPool[i].key >>
                       # << FieldPool[j].blk, FieldPool[j].key >>

\* the example of the specification (with and without the category among
\* the payload's own fields), a set of four components, and an inverter
\* with a count, a voltage and a power, and a payload whose fields are an
\* empty sequence and an empty mapping
ExamplePayloads == {
    Obj(<<KV(<<"z","e","r","t","i","f","i","k","a","t","e">>, Arr(<< >>)),
          KV(<<"t","e","c","h","n","i","s","c","h","e","_","s","p","e","z","i","f","i","k","a","t","i","o","n","e","n">>,
             Obj(<<KV(<<"t","e","m","p","e","r","a","t","u","r","b","e","r","e","i","c","h">>, Obj(<< >>))>>))>>),
    Obj(<<KV(<<"w","e","c","h","s","e","l","r","i","c","h","t","e","r","_","s","p","e","z","i","f","i","k","a","t","i","o","n","e","n">>,
             Obj(<<KV(<<"m","p","p","t","_","a","n","z","a","h","l">>, Num(2)),
                   KV(<<"m","a","x","_","d","c","_","s","p","a","n","n","u","n","g","_","v">>, Num(600)),
                   KV(<<"n","e","n","n","l","e","i","s","t","u","n","g","_","w">>, Num(800))>>))>>),
    Obj(<<KV(<<"b","a","t","t","e","r","i","e","_","s","p","e","z","i","f","i","k","a","t","i","o","n","e","n">>,
             Obj(<<KV(<<"k","a","p","a","z","i","t","a","e","t","_","k","w","h">>, Num(5)), KV(<<"b","m","s">>, Bool(TRUE))>>))>>),
    Obj(<<KV(<<"p","r","o","d","u","k","t","t","y","p">>, Str(<<"b","a","t","t","e","r","i","e">>)),
          KV(<<"b","a","t","t","e","r","i","e","_","s","p","e","z","i","f","i","k","a","t","i","o","n","e","n">>,
             Obj(<<KV(<<"k","a","p","a","z","i","t","a","e","t","_","k","w","h">>, Num(5)), KV(<<"b","m","s">>, Bool(TRUE))>>))>>),
    Obj(<<KV(<<"s","e","t","_","t","y","p","_","d","e","t","a","i","l">>, Str(<<"b","a","l","k","o","n","k","r","a","f","t","w","e","r","k">>)),
          KV(<<"e","r","k","a","n","n","t","e","_","k","o","m","p","o","n","e","n","t","e","n","_","t","y","p","e","n">>,
             Arr(<<Str(<<"s","o","l","a","r","m","o","d","u","l">>), Str(<<"w","e","c","h","s","e","l","r","i","c","h","t","e","r">>)>>)),
          KV(<<"s","e","t","_","g","e","s","a","m","t">>, Obj(<<KV(<<"l","e","i","s","t","u","n","g","_","w">>, Num(800))>>)),
          KV(<<"k","o","m","p","o","n","e","n","t","e","n","_","s","p","e","z","i","f","i","k","a","t","i","o","n","e","n">>,
             Obj(<<KV(<<"s","o","l","a","r","m","o","d","u","l">>, Obj(<<KV(<<"l","e","i","s","t","u","n","g","_","w">>, Num(400))>>)),
                   KV(<<"w","e","c","h","s","e","l","r","i","c","h","t","e","r">>, Obj(<<KV(<<"l","e","i","s","t","u","n","g","_","w">>, Num(800))>>)),
                   KV(<<"b","a","t","t","e","r","i","e">>, Obj(<<KV(<<"k","a","p","a","z","i","t","a","e","t","_","k","w","h">>, Num(2))>>)),
                   KV(<<"k","a","b","e","l">>, Obj(<<KV(<<"l","a","e","n","g","e">>, Str(<<"5"," ","m">>))>>))>>))>>)
    }

\* the sets of at most k indices of the pool
RECURSIVE ChosenSets(_)
ChosenSets(k) ==
    IF k = 0 THEN {{}}
    ELSE ChosenSets(k - 1)
         \cup {c \cup {i} : c \in ChosenSets(k - 1), i \in 1..Len(FieldPool)}

Payloads ==
    {buildPayload(Obj(<< >>), chosen, reversed) :
        chosen \in {c \in ChosenSets(MaxFields) : Choosable(c)},
        reversed \in BOOLEAN}
    \cup ExamplePayloads \cup {Null}

NStart ==
    /\ n_pc = "call"
    /\ product \in {Obj(<<KV(<<"p","r","o","d","u","k","t","t","y","p">>, t)>>) : t \in ProdukttypPool}
    /\ payload \in Payloads
    /\ specs = << >>
    /\ seenKeys = {}
    /\ offered = << >>

NIdle ==
    /\ n_pc = "idle"
    /\ product = Null
    /\ payload = Null
    /\ specs = << >>
    /\ seenKeys = {}
    /\ offered = << >>

\* the locals of the running call
St == [specs |-> specs, seenKeys |-> seenKeys, offered |-> offered,
       threw |-> FALSE]

\* one block of the function ran and left st
NStep(from, to, st) ==
    /\ n_pc = from
    /\ n_pc' = IF st.threw THEN "threw" ELSE to
    /\ specs' = st.specs
    /\ seenKeys' = st.seenKeys
    /\ offered' = st.offered
    /\ UNCHANGED <<product, payload, m_vars, c_vars, g_vars>>

\* line 360
NProdukttyp ==
    NStep("call", "set", IF produkttypThrows(product) THEN Throw(St) ELSE St)
\* lines 365-446
NSetBlock == NStep("set", "category", setBlock(St, payload))
\* lines 454-708
NCategoryBlock ==
    NStep("category", "fallback",
          categoryBlock(St, produkttypOf(product), payload))
\* lines 713-730
NFallbackBlock == NStep("fallback", "technische", fallbackBlock(St, payload))
\* lines 733-750
NTechnischeBlock ==
    NStep("technische", "eigenschaften", technischeBlock(St, payload))
\* lines 753-766
NEigenschaftenBlock ==
    NStep("eigenschaften", "sicherheit", eigenschaftenBlock(St, payload))
\* lines 769-796
NSicherheitBlock ==
    NStep("sicherheit", "abmessungen", sicherheitBlock(St, payload))
\* lines 799-813
NAbmessungenBlock ==
    NStep("abmessungen", "allgemein", abmessungenBlock(St, payload))
\* lines 816-818
NAllgemeinBlock == NStep("allgemein", "sort", allgemeinBlock(St, payload))
\* lines 821-826
NSortAndReturn ==
    NStep("sort", "returned", [St EXCEPT !.specs = sortSpecs(@)])

NNext ==
    \/ NProdukttyp
    \/ NSetBlock
    \/ NCategoryBlock
    \/ NFallbackBlock
    \/ NTechnischeBlock
    \/ NEigenschaftenBlock
    \/ NSicherheitBlock
    \/ NAbmessungenBlock
    \/ NAllgemeinBlock
    \/ NSortAndReturn

----------------------------------------------------------------------------
(* markdownToHTML: the regular expressions *)

\* index of the first character of s at or after from that is in stop, or 0
firstIn(s, from, stop) ==
    LET hits == {i \in from..Len(s) : s[i] \in stop}
    IN IF hits = {} THEN 0 ELSE CHOOSE i \in hits : \A j \in hits : i <= j

\* index of the first character of s at or after from that is not in skip,
\* or 0
firstNotIn(s, from, skip) ==
    LET hits == {i \in from..Len(s) : s[i] \notin skip}
    IN IF hits = {} THEN 0 ELSE CHOOSE i \in hits : \A j \in hits : i <= j

\* String.prototype.split for a one-character separator
RECURSIVE split(_, _)
split(s, sep) ==
    LET i == firstIn(s, 1, {sep})
    IN IF i = 0 THEN <<s>>
       ELSE <<SubSeq(s, 1, i - 1)>> \o split(SubSeq(s, i + 1, Len(s)), sep)

Fence == <<"bt","bt","bt">>
PlaceholderPrefix == <<"C","O","D","E","B","L","O","C","K","_">>

\* markdown.replace(/```([\s\S]*?)```/g, ...) from the index from on: the
\* text with each fenced span replaced by its placeholder, and the spans
RECURSIVE extractCodeBlocks(_, _, _)
extractCodeBlocks(s, from, blocks) ==
    LET i == indexOfFrom(s, Fence, from)
        j == IF i = 0 THEN 0 ELSE indexOfFrom(s, Fence, i + 3)
    IN IF i = 0 \/ j = 0
       THEN [html |-> SubSeq(s, from, Len(s)), codeBlocks |-> blocks]
       ELSE LET id == PlaceholderPrefix \o numToString(Len(blocks))
                rest == extractCodeBlocks(s, j + 3,
                            Append(blocks,
                                   [id |-> id,
                                    code |-> trim(SubSeq(s, i + 3, j - 1))]))
            IN [html |-> SubSeq(s, from, i - 1) \o id \o rest.html,
                codeBlocks |-> rest.codeBlocks]

\* /^###\s+/, /^##\s+/, /^#\s+/: the level of the heading, 0 for none, in
\* the order the code tests them
hashes(level) == [i \in 1..level |-> "#"]
matchesHeading(line, level) ==
    /\ Len(line) > level
    /\ SubSeq(line, 1, level) = hashes(level)
    /\ line[level + 1] \in WhiteChars
headingLevel(line) ==
    IF matchesHeading(line, 3) THEN 3
    ELSE IF matchesHeading(line, 2) THEN 2
    ELSE IF matchesHeading(line, 1) THEN 1
    ELSE 0
\* line.replace(/^#\s+/, '')
headingText(line, level) == trimStart(SubSeq(line, level + 1, Len(line)))

\* the group of /\s+(.+)$/ matched against rest: white space, then at least
\* one character; << >> stands for no match
itemContent(rest) ==
    LET c == trimStart(rest)
        k == Len(rest) - Len(c)
    IN IF k = 0 THEN << >>
       ELSE IF c # << >> THEN c
       ELSE IF k >= 2 THEN <<rest[Len(rest)]>>
       ELSE << >>

\* line.match(/^[\s]*[-*]\s+(.+)$/): the group, << >> for no match
listMatch(line) ==
    LET a == trimStart(line)
    IN IF a = << >> \/ Head(a) \notin {"-", "*"} THEN << >>
       ELSE itemContent(Tail(a))

\* line.match(/^\d+\.\s+(.+)$/): the group, << >> for no match
numberedMatch(line) ==
    LET d == firstNotIn(line, 1, {Digits[i] : i \in 1..Len(Digits)})
    IN IF d <= 1 \/ line[d] # "." THEN << >>
       ELSE itemContent(SubSeq(line, d + 1, Len(line)))

\* the least element of a non-empty set of indices
Least(S) == CHOOSE i \in S : \A j \in S : i <= j

\* /`([^`\n]+)`/ matched at the index i: the index of its last character,
\* or 0
inlineCodeEnd(s, i) ==
    LET j == IF s[i] = "bt" THEN firstIn(s, i + 1, {"bt", "\n"}) ELSE 0
    IN IF j > i + 1 /\ s[j] = "bt" THEN j ELSE 0

\* html.replace(/`([^`\n]+)`/g, '<code>$1</code>') from the index from on
RECURSIVE replaceInlineCode(_, _)
replaceInlineCode(s, from) ==
    LET starts == {i \in from..Len(s) : s[i] = "bt" /\ inlineCodeEnd(s, i) > 0}
    IN IF starts = {} THEN SubSeq(s, from, Len(s))
       ELSE LET i == Least(starts)
                j == inlineCodeEnd(s, i)
            IN SubSeq(s, from, i - 1)
               \o <<"<","c","o","d","e",">">> \o SubSeq(s, i + 1, j - 1) \o <<"<","/","c","o","d","e",">">>
               \o replaceInlineCode(s, j + 1)

\* /\[([^\]]+)\]\(([^)]+)\)/ matched at the index i: the indices of its
\* ']' and of its last character, or 0
linkMiddle(s, i) ==
    LET j == IF s[i] = "[" THEN firstIn(s, i + 1, {"]"}) ELSE 0
    IN IF j > i + 1 /\ j < Len(s) /\ s[j + 1] = "(" THEN j ELSE 0
linkEnd(s, i) ==
    LET j == linkMiddle(s, i)
        k == IF j > 0 THEN firstIn(s, j + 2, {")"}) ELSE 0
    IN IF k > j + 2 THEN k ELSE 0

\* html.replace(/\[([^\]]+)\]\(([^)]+)\)/g, '<a href="$2" ...>$1</a>')
RECURSIVE replaceLinks(_, _)
replaceLinks(s, from) ==
    LET starts == {i \in from..Len(s) : s[i] = "[" /\ linkEnd(s, i) > 0}
    IN IF starts = {} THEN SubSeq(s, from, Len(s))
       ELSE LET i == Least(starts)
                j == linkMiddle(s, i)
                k == linkEnd(s, i)
            IN SubSeq(s, from, i - 1)
               \o <<"<","a"," ","h","r","e","f","=","\"">> \o SubSeq(s, j + 2, k - 1)
               \o <<"\""," ","t","a","r","g","e","t","=","\"","_","b","l","a","n","k","\""," ","r","e","l","=","\"","n","o","o","p","e","n","e","r"," ","n","o","r","e","f","e","r","r","e","r","\"",">">>
               \o SubSeq(s, i + 1, j - 1) \o <<"<","/","a",">">>
               \o replaceLinks(s, k + 1)

\* /\*\*([^*\n]+?)\*\*/ matched at the index i, c being the marker: the
\* index of its last character, or 0
boldEnd(s, i, c) ==
    LET j == IF s[i] = c /\ i < Len(s) /\ s[i + 1] = c
             THEN firstIn(s, i + 2, {c, "\n"}) ELSE 0
    IN IF j > i + 2 /\ s[j] = c /\ j < Len(s) /\ s[j + 1] = c
       THEN j + 1 ELSE 0

\* html.replace(/\*\*([^*\n]+?)\*\*/g, '<strong>$1</strong>') and the same
\* with __
RECURSIVE replaceBold(_, _, _)
replaceBold(s, from, c) ==
    LET starts == {i \in from..Len(s) : s[i] = c /\ boldEnd(s, i, c) > 0}
    IN IF starts = {} THEN SubSeq(s, from, Len(s))
       ELSE LET i == Least(starts)
                j == boldEnd(s, i, c)
            IN SubSeq(s, from, i - 1)
               \o <<"<","s","t","r","o","n","g",">">> \o SubSeq(s, i + 2, j - 2) \o <<"<","/","s","t","r","o","n","g",">">>
               \o replaceBold(s, j + 1, c)

\* /(?<!\*)\*([^*\n]+?)\*(?!\*)/ matched at the index i, c being the
\* marker: the index of its last character, or 0
italicEnd(s, i, c) ==
    LET j == IF s[i] = c /\ (i = 1 \/ s[i - 1] # c)
             THEN firstIn(s, i + 1, {c, "\n"}) ELSE 0
    IN IF j > i + 1 /\ s[j] = c /\ (j = Len(s) \/ s[j + 1] # c)
       THEN j ELSE 0

\* html.replace(/(?<!\*)\*([^*\n]+?)\*(?!\*)/g, '<em>$1</em>') and the same
\* with _
RECURSIVE replaceItalic(_, _, _)
replaceItalic(s, from, c) ==
    LET starts == {i \in from..Len(s) : s[i] = c /\ italicEnd(s, i, c) > 0}
    IN IF starts = {} THEN SubSeq(s, from, Len(s))
       ELSE LET i == Least(starts)
                j == italicEnd(s, i, c)
            IN SubSeq(s, from, i - 1)
               \o <<"<","e","m",">">> \o SubSeq(s, i + 1, j - 1) \o <<"<","/","e","m",">">>
               \o replaceItalic(s, j + 1, c)

\* the replacement text of s.replace(pattern, rep) for a string pattern
\* found at the index at: $$, $&, $` and $' are patterns of the replacement
RECURSIVE expandReplacement(_, _, _, _)
expandReplacement(rep, s, at, pattern) ==
    LET starts == {i \in 1..(Len(rep) - 1) :
                      rep[i] = "$" /\ rep[i + 1] \in {"$", "&", "bt", "'"}}
    IN IF starts = {} THEN rep
       ELSE LET i == Least(starts)
            IN SubSeq(rep, 1, i - 1)
               \o (CASE rep[i + 1] = "$" -> <<"$">>
                     [] rep[i + 1] = "&" -> pattern
                     [] rep[i + 1] = "bt" -> SubSeq(s, 1, at - 1)
                     [] rep[i + 1] = "'" ->
                            SubSeq(s, at + Len(pattern), Len(s)))
               \o expandReplacement(SubSeq(rep, i + 2, Len(rep)), s, at,
                                    pattern)

\* s.replace(pattern, rep) for a string pattern: the first occurrence only
replaceFirst(s, pattern, rep) ==
    LET at == indexOfFrom(s, pattern, 1)
    IN IF at = 0 THEN s
       ELSE SubSeq(s, 1, at - 1) \o expandReplacement(rep, s, at, pattern)
            \o SubSeq(s, at + Len(pattern), Len(s))

\* codeBlocks.forEach(({id, code}) => html = html.replace(id, ...))
RECURSIVE restoreCodeBlocks(_, _)
restoreCodeBlocks(s, blocks) ==
    IF blocks = << >> THEN s
    ELSE restoreCodeBlocks(
             replaceFirst(s, Head(blocks).id,
                          <<"<","p","r","e",">","<","c","o","d","e",">">> \o Head(blocks).code
                              \o <<"<","/","c","o","d","e",">","<","/","p","r","e",">">>),
             Tail(blocks))

LineBreak == <<"<","b","r",">">>

\* the index after the run of (<br>\s*) units that starts at i, and the
\* number of units of the run
RECURSIVE breakRun(_, _, _)
breakRun(s, i, n) ==
    IF i + 3 <= Len(s) /\ SubSeq(s, i, i + 3) = LineBreak
    THEN LET w == firstNotIn(s, i + 4, WhiteChars)
         IN breakRun(s, IF w = 0 THEN Len(s) + 1 ELSE w, n + 1)
    ELSE [after |-> i, n |-> n]

\* a return without line 117
collapseBreaksSkipped(s, from) == SubSeq(s, from, Len(s))

\* html.replace(/(<br>\s*){2,}/g, '<br><br>') from the index from on
RECURSIVE collapseBreaks(_, _)
collapseBreaks(s, from) ==
    LET starts == {i \in from..Len(s) :
                      s[i] = "<" /\ breakRun(s, i, 0).n >= 2}
    IN IF starts = {} THEN SubSeq(s, from, Len(s))
       ELSE LET i == Least(starts)
            IN SubSeq(s, from, i - 1) \o LineBreak \o LineBreak
               \o collapseBreaks(s, breakRun(s, i, 0).after)

----------------------------------------------------------------------------
(* markdownToHTML: the calls that are checked.  The text is at most        *)
(* MaxLines lines of LinePool joined by line breaks.                       *)

MaxLines == 3

LinePool == {
    << >>,
    <<"t","e","x","t">>,
    <<"#"," ","T">>,
    <<"-"," ","a">>,
    <<"1","."," ","n">>,
    <<"-","-","-">>,
    <<"bt","bt","bt">>,
    <<"bt","bt","bt","c","bt","bt","bt">>,
    <<"a","_","b"," ","bt","bt","bt","c","bt","bt","bt">>,
    <<"-"," ","[","a","]","(","x">>,
    <<"b",")">>,
    <<"*","*","b","*","*"," ","*","i","*"," ","bt","q","bt">>,
    <<"<","b","r",">"," ">>
    }

RECURSIVE LineSeqs(_)
LineSeqs(k) ==
    IF k = 0 THEN {<< >>}
    ELSE LineSeqs(k - 1)
         \cup {Append(ls, l) : ls \in LineSeqs(k - 1), l \in LinePool}

MStart ==
    /\ m_pc = "call"
    /\ markdown \in {join(ls, <<"\n">>) : ls \in LineSeqs(MaxLines)}
    /\ html = << >>
    /\ codeBlocks = << >>
    /\ lines = << >>
    /\ lineIdx = 0
    /\ processedLines = << >>
    /\ inList = FALSE
    /\ inCodeBlock = FALSE

MIdle ==
    /\ m_pc = "idle"
    /\ markdown = << >>
    /\ html = << >>
    /\ codeBlocks = << >>
    /\ lines = << >>
    /\ lineIdx = 0
    /\ processedLines = << >>
    /\ inList = FALSE
    /\ inCodeBlock = FALSE

\* line 9: if (!markdown) return ''
MReturnEmpty ==
    /\ m_pc = "call"
    /\ markdown = << >>
    /\ m_pc' = "done"
    /\ html' = << >>
    /\ UNCHANGED <<markdown, codeBlocks, lines, lineIdx, processedLines,
                   inList, inCodeBlock, n_vars, c_vars, g_vars>>

\* lines 12-23
MExtractCodeBlocks ==
    /\ m_pc = "call"
    /\ markdown # << >>
    /\ LET r == extractCodeBlocks(markdown, 1, << >>)
       IN /\ html' = r.html
          /\ codeBlocks' = r.codeBlocks
          /\ lines' = split(r.html, "\n")
    /\ lineIdx' = 1
    /\ processedLines' = << >>
    /\ inList' = FALSE
    /\ inCodeBlock' = FALSE
    /\ m_pc' = "scan"
    /\ UNCHANGED <<markdown, n_vars, c_vars, g_vars>>

line == lines[lineIdx]
Scanning == m_pc = "scan" /\ lineIdx <= Len(lines)

\* one turn of the loop pushed the lines out and left the list open or not
MPush(out, list) ==
    /\ processedLines' = processedLines \o out
    /\ inList' = list
    /\ lineIdx' = lineIdx + 1
    /\ UNCHANGED <<m_pc, markdown, html, codeBlocks, lines, n_vars, c_vars,
                   g_vars>>

\* the '</ul>' pushed before a line that ends an open list
closeList == IF inList THEN <<<<"<","/","u","l",">">>>> ELSE << >>

\* lines 29-33
MLinePlaceholder ==
    /\ Scanning
    /\ includes(line, PlaceholderPrefix)
    /\ inCodeBlock' = ~inCodeBlock
    /\ MPush(<<line>>, inList)

\* lines 35-38
MLineInCodeBlock ==
    /\ Scanning
    /\ ~includes(line, PlaceholderPrefix)
    /\ inCodeBlock
    /\ UNCHANGED inCodeBlock
    /\ MPush(<<line>>, inList)

Markup == Scanning /\ ~includes(line, PlaceholderPrefix) /\ ~inCodeBlock

\* lines 41-55
MLineHeading ==
    /\ Markup
    /\ headingLevel(line) > 0
    /\ LET level == headingLevel(line)
           h == <<"h", Digits[level + 1]>>
       IN MPush(closeList
                \o <<<<"<">> \o h \o <<">">> \o headingText(line, level)
                         \o <<"<","/">> \o h \o <<">">>>>,
                FALSE)
    /\ UNCHANGED inCodeBlock

\* lines 58-62
MLineRule ==
    /\ Markup
    /\ headingLevel(line) = 0
    /\ trim(line) = <<"-","-","-">>
    /\ MPush(closeList \o <<<<"<","h","r",">">>>>, FALSE)
    /\ UNCHANGED inCodeBlock

IsItem(l) == listMatch(l) # << >> \/ numberedMatch(l) # << >>

\* lines 65-76
MLineListItem ==
    /\ Markup
    /\ headingLevel(line) = 0
    /\ trim(line) # <<"-","-","-">>
    /\ IsItem(line)
    /\ LET content == IF listMatch(line) # << >> THEN listMatch(line)
                      ELSE numberedMatch(line)
       IN MPush((IF inList THEN << >> ELSE <<<<"<","u","l",">">>>>)
                \o <<<<"<","l","i",">">> \o content \o <<"<","/","l","i",">">>>>,
                TRUE)
    /\ UNCHANGED inCodeBlock

\* lines 79-88
MLineNormal ==
    /\ Markup
    /\ headingLevel(line) = 0
    /\ trim(line) # <<"-","-","-">>
    /\ ~IsItem(line)
    /\ MPush(closeList
             \o <<IF trim(line) # << >> THEN line ELSE LineBreak>>,
             FALSE)
    /\ UNCHANGED inCodeBlock

\* lines 91-95
MCloseAndJoin ==
    /\ m_pc = "scan"
    /\ lineIdx > Len(lines)
    /\ processedLines' = processedLines \o closeList
    /\ html' = join(processedLines', <<"\n">>)
    /\ m_pc' = "inline"
    /\ UNCHANGED <<markdown, codeBlocks, lines, lineIdx, inList, inCodeBlock,
                   n_vars, c_vars, g_vars>>

\* one statement of lines 97-117 rewrote html
MRewrite(from, to, out) ==
    /\ m_pc = from
    /\ m_pc' = to
    /\ html' = out
    /\ UNCHANGED <<markdown, codeBlocks, lines, lineIdx, processedLines,
                   inList, inCodeBlock, n_vars, c_vars, g_vars>>

\* line 98
MInlineCode == MRewrite("inline", "links", replaceInlineCode(html, 1))
\* line 101
MLinks == MRewrite("links", "bold", replaceLinks(html, 1))
\* lines 104-105
MBold ==
    MRewrite("bold", "italic", replaceBold(replaceBold(html, 1, "*"), 1, "_"))
\* lines 108-109
MItalic ==
    MRewrite("italic", "restore",
             replaceItalic(replaceItalic(html, 1, "*"), 1, "_"))
\* lines 112-114
MRestoreCodeBlocks ==
    MRewrite("restore", "collapse", restoreCodeBlocks(html, codeBlocks))
\* lines 117-119
MCollapseAndReturn == MRewrite("collapse", "done", collapseBreaks(html, 1))

MNext ==
    \/ MReturnEmpty
    \/ MExtractCodeBlocks
    \/ MLinePlaceholder
    \/ MLineInCodeBlock
    \/ MLineHeading
    \/ MLineRule
    \/ MLineListItem
    \/ MLineNormal
    \/ MCloseAndJoin
    \/ MInlineCode
    \/ MLinks
    \/ MBold
    \/ MItalic
    \/ MRestoreCodeBlocks
    \/ MCollapseAndReturn

----------------------------------------------------------------------------
(* extractStructuredComparison *)

\* String.prototype.split for a separator of several characters
RECURSIVE splitOn(_, _)
splitOn(s, sep) ==
    LET i == indexOfFrom(s, sep, 1)
    IN IF i = 0 THEN <<s>>
       ELSE <<SubSeq(s, 1, i - 1)>>
            \o splitOn(SubSeq(s, i + Len(sep), Len(s)), sep)

\* s.substring(0, n) and list.slice(0, n)
substring(s, n) == IF Len(s) > n THEN SubSeq(s, 1, n) ELSE s

\* lines 1226-1254; a field that is not set reads as the empty string
EmptyProdukt ==
    [einsatzgebiete |-> << >>, kurzbeschreibung |-> << >>,
     empfehlung |-> << >>, verwendung |-> << >>, kompatibilitaet |-> << >>,
     eigenschaften |-> << >>]
EmptyAlles == [vorteile |-> << >>, nachteile |-> << >>, weitere_info |-> << >>]
EmptyResult ==
    [produkt1 |-> EmptyProdukt,
     produkt2 |-> EmptyProdukt,
     vergleich |-> [vergleich_allgemein |-> << >>,
                    technische_unterschiede |-> << >>,
                    preis_leistung |-> << >>,
                    wann_besser |-> << >>,
                    vergleich_text |-> << >>,
                    produkt1_alles |-> EmptyAlles,
                    produkt2_alles |-> EmptyAlles]]

\* line 1256: !responseText || !products
missingArgument(text, prods) == Falsy(text) \/ Falsy(prods)

\* the mutation of tooFewProducts that asks for one product only
tooFewProductsOne(prods) == prods.t = "arr" /\ Len(prods.v) < 1

\* line 1256: products.length < 2 (a value without a length compares false)
tooFewProducts(prods) == prods.t = "arr" /\ Len(prods.v) < 2

\* lines 1261-1263
coerced(text) ==
    IF text.t = "str" THEN text.v ELSE StringOf(OrElse(text, Str(<< >>)))

\* products[i]: the element, undefined past the end or for no array
elementOf(prods, i) ==
    IF prods.t = "arr" /\ i <= Len(prods.v) THEN prods.v[i] ELSE Undefined

\* (products[i].key || ''): reading a property of null or undefined throws
nameValue(prods, i, key) == OrElse(Get(elementOf(prods, i), key), Str(<< >>))
nameThrows(prods, i, key) ==
    \/ elementOf(prods, i).t \in {"null", "undef"}
    \/ nameValue(prods, i, key).t # "str"

\* lines 1265-1268
namesThrow(prods) ==
    \E i \in 1..2 : \E key \in {<<"a","r","t","i","k","e","l","n","a","m","e">>, <<"a","r","t","i","k","e","l","n","u","m","m","e","r">>} :
        nameThrows(prods, i, key)
namesOf(prods) ==
    [produkt1Name |-> toLowerCase(nameValue(prods, 1, <<"a","r","t","i","k","e","l","n","a","m","e">>).v),
     produkt2Name |-> toLowerCase(nameValue(prods, 2, <<"a","r","t","i","k","e","l","n","a","m","e">>).v),
     produkt1ArtNr |-> toLowerCase(nameValue(prods, 1, <<"a","r","t","i","k","e","l","n","u","m","m","e","r">>).v),
     produkt2ArtNr |-> toLowerCase(nameValue(prods, 2, <<"a","r","t","i","k","e","l","n","u","m","m","e","r">>).v)]

\* mutation: currentProduct is reset for every section
ownerOfReset(section, names, owner) ==
    LET sectionLower == toLowerCase(section)
    IN IF \/ includes(sectionLower, <<"p","r","o","d","u","k","t"," ","1">>)
          \/ includes(sectionLower, names.produkt1Name)
          \/ includes(sectionLower, names.produkt1ArtNr)
       THEN "produkt1"
       ELSE IF \/ includes(sectionLower, <<"p","r","o","d","u","k","t"," ","2">>)
               \/ includes(sectionLower, names.produkt2Name)
               \/ includes(sectionLower, names.produkt2ArtNr)
       THEN "produkt2"
       ELSE IF includes(sectionLower, <<"p","r","o","d","u","k","t","v","e","r","g","l","e","i","c","h">>) THEN "vergleich"
       ELSE "none"

\* mutation: the literals 'produkt 1' and 'produkt 2' are not tested
ownerOfNamesOnly(section, names, owner) ==
    LET sectionLower == toLowerCase(section)
    IN IF \/ includes(sectionLower, names.produkt1Name)
          \/ includes(sectionLower, names.produkt1ArtNr)
       THEN "produkt1"
       ELSE IF \/ includes(sectionLower, names.produkt2Name)
               \/ includes(sectionLower, names.produkt2ArtNr)
       THEN "produkt2"
       ELSE IF includes(sectionLower, <<"p","r","o","d","u","k","t","v","e","r","g","l","e","i","c","h">>) THEN "vergleich"
       ELSE owner

\* lines 1280-1290: the owner of a section, product 1 being tested first;
\* a section without a marker keeps the owner of the section before it
ownerOf(section, names, owner) ==
    LET sectionLower == toLowerCase(section)
    IN IF \/ includes(sectionLower, <<"p","r","o","d","u","k","t"," ","1">>)
          \/ includes(sectionLower, names.produkt1Name)
          \/ includes(sectionLower, names.produkt1ArtNr)
       THEN "produkt1"
       ELSE IF \/ includes(sectionLower, <<"p","r","o","d","u","k","t"," ","2">>)
               \/ includes(sectionLower, names.produkt2Name)
               \/ includes(sectionLower, names.produkt2ArtNr)
       THEN "produkt2"
       ELSE IF includes(sectionLower, <<"p","r","o","d","u","k","t","v","e","r","g","l","e","i","c","h">>) THEN "vergleich"
       ELSE owner

\* the state of the scan: the result so far, currentProduct, currentSection
\* and the flags in... that are true
Scan(res, owner, sub, fl) ==
    [result |-> res, currentProduct |-> owner, currentSection |-> sub,
     flags |-> fl]

\* lines 1313-1347: the number of the first heading test the line passes,
\* 0 for none
productHeading(lineLower) ==
    IF includes(lineLower, <<"i","d","e","a","l","e"," ","e","i","n","s","a","t","z","g","e","b","i","e","t","e">>)
       \/ includes(lineLower, <<"e","i","n","s","a","t","z","g","e","b","i","e","t","e">>) THEN 1
    ELSE IF \/ includes(lineLower, <<"k","u","r","z","b","e","s","c","h","r","e","i","b","u","n","g">>)
            \/ includes(lineLower, <<"v","e","r","w","e","n","d","u","n","g">>)
            \/ includes(lineLower, <<"k","o","m","p","a","t","i","b","i","l","i","t","a:","t">>)
            \/ includes(lineLower, <<"s","p","e","z","i","e","l","l","e"," ","e","i","g","e","n","s","c","h","a","f","t","e","n">>) THEN 2
    ELSE IF includes(lineLower, <<"e","m","p","f","e","h","l","u","n","g">>) THEN 3
    ELSE IF includes(lineLower, <<"v","o","r","t","e","i","l","e"," ","p","r","o","d","u","k","t"," ","1">>)
            \/ includes(lineLower, <<"v","o","r","t","e","i","l","e"," ","p","r","o","d","u","k","t","1">>) THEN 4
    ELSE IF includes(lineLower, <<"n","a","c","h","t","e","i","l","e"," ","p","r","o","d","u","k","t"," ","1">>)
            \/ includes(lineLower, <<"n","a","c","h","t","e","i","l","e"," ","p","r","o","d","u","k","t","1">>) THEN 5
    ELSE IF includes(lineLower, <<"v","o","r","t","e","i","l","e"," ","p","r","o","d","u","k","t"," ","2">>)
            \/ includes(lineLower, <<"v","o","r","t","e","i","l","e"," ","p","r","o","d","u","k","t","2">>) THEN 6
    ELSE IF includes(lineLower, <<"n","a","c","h","t","e","i","l","e"," ","p","r","o","d","u","k","t"," ","2">>)
            \/ includes(lineLower, <<"n","a","c","h","t","e","i","l","e"," ","p","r","o","d","u","k","t","2">>) THEN 7
    ELSE IF includes(lineLower, <<"v","e","r","g","l","e","i","c","h",":">>)
            \/ includes(lineLower, <<"*","*","v","e","r","g","l","e","i","c","h","*","*">>) THEN 8
    ELSE 0

\* lines 1313-1347: what the heading h does to the scan
applyProductHeading(sc, h) ==
    CASE h = 1 ->
           [sc EXCEPT !.flags = (@ \cup {"inEinsatzgebiete"})
                                  \ {"inKurzbeschreibung", "inEmpfehlung"}]
      [] h = 2 ->
           [sc EXCEPT !.flags = (@ \cup {"inKurzbeschreibung"})
                                  \ {"inEinsatzgebiete", "inEmpfehlung"}]
      [] h = 3 ->
           [sc EXCEPT !.flags = (@ \cup {"inEmpfehlung"})
                                  \ {"inEinsatzgebiete", "inKurzbeschreibung"}]
      [] h = 4 ->
           [sc EXCEPT !.flags = @ \cup {"inVorteile"},
                      !.currentSection = "produkt1"]
      [] h = 5 ->
           [sc EXCEPT !.flags = @ \cup {"inNachteile"},
                      !.currentSection = "produkt1"]
      [] h = 6 ->
           [sc EXCEPT !.flags = @ \cup {"inVorteile"},
                      !.currentSection = "produkt2"]
      [] h = 7 ->
           [sc EXCEPT !.flags = @ \cup {"inNachteile"},
                      !.currentSection = "produkt2"]
      [] h = 8 -> [sc EXCEPT !.flags = @ \cup {"inVergleich"}]

\* line.match(/^[-*\u2022]\s+/)
isBullet(l) ==
    Len(l) >= 2 /\ l[1] \in {"-", "*", "bullet"} /\ l[2] \in WhiteChars
\* line 1352 without the removal of the white space
bulletContentUntrimmed(l) == Tail(l)
\* line.replace(/^[-*\u2022]\s+/, '').trim()
bulletContent(l) == trim(Tail(l))

\* the group of /(?:key:?\s*)(.+)/ with the key matched up to the index
\* before from: << >> stands for no match
groupAfter(l, from) ==
    LET colon == from <= Len(l) /\ l[from] = ":"
        r1 == SubSeq(l, IF colon THEN from + 1 ELSE from, Len(l))
        r2 == trimStart(r1)
    IN IF r2 # << >> THEN r2
       ELSE IF r1 # << >> THEN <<r1[Len(r1)]>>
       ELSE IF colon THEN <<":">>
       ELSE << >>

\* line.match(/(?:key1:?\s*|key2:?\s*)(.+)/i): the group of the leftmost
\* match, the keys being tried in their order; << >> stands for no match
matchAfter(l, keys) ==
    LET lower == toLowerCase(l)
        hit(i, k) == /\ i + Len(keys[k]) - 1 <= Len(l)
                     /\ SubSeq(lower, i, i + Len(keys[k]) - 1) = keys[k]
                     /\ groupAfter(l, i + Len(keys[k])) # << >>
        at == {i \in 1..Len(l) : \E k \in 1..Len(keys) : hit(i, k)}
    IN IF at = {} THEN << >>
       ELSE LET i == Least(at)
                k == Least({x \in 1..Len(keys) : hit(i, x)})
            IN groupAfter(l, i + Len(keys[k]))

\* kurzbeschreibung += ' ' + line
appendText(old, l) == IF old = << >> THEN l ELSE old \o <<" ">> \o l

\* lines 1356-1393: a line of a short description
kurzbeschreibungLine(res, p, l) ==
    LET lineLower == toLowerCase(l)
        content == bulletContent(l)
    IN IF includes(lineLower, <<"v","e","r","w","e","n","d","u","n","g",":">>)
          \/ includes(lineLower, <<"v","e","r","w","e","n","d","u","n","g"," ">>)
       THEN LET m == matchAfter(l, <<<<"v","e","r","w","e","n","d","u","n","g">>>>)
            IN IF m # << >> THEN [res EXCEPT ![p].verwendung = trim(m)]
               ELSE res
       ELSE IF includes(lineLower, <<"k","o","m","p","a","t","i","b","i","l","i","t","a:","t",":">>)
               \/ includes(lineLower, <<"k","o","m","p","a","t","i","b","e","l">>)
       THEN LET m == matchAfter(l, <<<<"k","o","m","p","a","t","i","b","i","l","i","t","a:","t">>, <<"k","o","m","p","a","t","i","b","e","l">>>>)
            IN IF m # << >> THEN [res EXCEPT ![p].kompatibilitaet = trim(m)]
               ELSE res
       ELSE IF includes(lineLower, <<"s","p","e","z","i","e","l","l","e"," ","e","i","g","e","n","s","c","h","a","f","t","e","n",":">>)
               \/ includes(lineLower, <<"e","i","g","e","n","s","c","h","a","f","t","e","n",":">>)
       THEN LET m == matchAfter(l, <<<<"s","p","e","z","i","e","l","l","e"," ","e","i","g","e","n","s","c","h","a","f","t","e","n">>,
                                     <<"e","i","g","e","n","s","c","h","a","f","t","e","n">>>>)
            IN IF m # << >> THEN [res EXCEPT ![p].eigenschaften = trim(m)]
               ELSE res
       ELSE IF isBullet(l)
       THEN IF Len(content) > 10
            THEN IF /\ res[p].verwendung = << >>
                    /\ res[p].kompatibilitaet = << >>
                    /\ res[p].eigenschaften = << >>
                 THEN [res EXCEPT ![p].verwendung = content]
                 ELSE IF res[p].kompatibilitaet = << >>
                 THEN [res EXCEPT ![p].kompatibilitaet = content]
                 ELSE IF res[p].eigenschaften = << >>
                 THEN [res EXCEPT ![p].eigenschaften = content]
                 ELSE res
            ELSE res
       ELSE IF Len(l) > 20
       THEN [res EXCEPT ![p].kurzbeschreibung = appendText(@, l)]
       ELSE res

\* lines 1350-1400: a line that is no heading, in a section of a product
productContent(sc, l) ==
    LET p == sc.currentProduct
        res == sc.result
    IN IF "inEinsatzgebiete" \in sc.flags /\ isBullet(l)
       THEN IF Len(bulletContent(l)) > 10
            THEN [sc EXCEPT !.result =
                     [res EXCEPT ![p].einsatzgebiete =
                                     Append(@, bulletContent(l))]]
            ELSE sc
       ELSE IF /\ "inKurzbeschreibung" \in sc.flags
               /\ Len(l) > 10
               /\ ~startsWith(l, <<"*","*">>)
       THEN [sc EXCEPT !.result = kurzbeschreibungLine(res, p, l)]
       ELSE IF /\ "inEmpfehlung" \in sc.flags
               /\ Len(l) > 10
               /\ ~startsWith(l, <<"*","*">>)
       THEN [sc EXCEPT !.result =
                [res EXCEPT ![p].empfehlung = appendText(@, l)]]
       ELSE sc

\* currentSection && currentSection.includes('produkt')
inProduktSection(sub) == sub # "none"

\* lines 1403-1471: the number of the first heading test the line passes in
\* the comparison section, 0 for none
vergleichHeading(lineLower, sub) ==
    IF includes(lineLower, <<"v","e","r","g","l","e","i","c","h"," ","a","l","l","g","e","m","e","i","n">>) THEN 1
    ELSE IF includes(lineLower, <<"t","e","c","h","n","i","s","c","h","e"," ","u","n","t","e","r","s","c","h","i","e","d","e">>) THEN 2
    ELSE IF includes(lineLower, <<"p","r","e","i","s","-","l","e","i","s","t","u","n","g","s","-","v","e","r","h","a:","l","t","n","i","s">>)
            \/ includes(lineLower, <<"p","r","e","i","s","-","l","e","i","s","t","u","n","g">>) THEN 3
    ELSE IF includes(lineLower, <<"w","a","n","n"," ","w","e","l","c","h","e","s"," ","p","r","o","d","u","k","t"," ","b","e","s","s","e","r"," ","i","s","t">>)
            \/ includes(lineLower, <<"w","a","n","n"," ","b","e","s","s","e","r">>) THEN 4
    ELSE IF \/ includes(lineLower, <<"p","r","o","d","u","k","t"," ","1",":">>)
               /\ ~includes(lineLower, <<"a","l","l","e","s">>)
            \/ startsWith(lineLower, <<"p","r","o","d","u","k","t"," ","1",":">>) THEN 5
    ELSE IF \/ includes(lineLower, <<"p","r","o","d","u","k","t"," ","2",":">>)
               /\ ~includes(lineLower, <<"a","l","l","e","s">>)
            \/ startsWith(lineLower, <<"p","r","o","d","u","k","t"," ","2",":">>) THEN 6
    ELSE IF includes(lineLower, <<"v","o","r","t","e","i","l","e",":">>) /\ inProduktSection(sub) THEN 7
    ELSE IF includes(lineLower, <<"n","a","c","h","t","e","i","l","e",":">>) /\ inProduktSection(sub) THEN 8
    ELSE IF includes(lineLower, <<"w","e","i","t","e","r","e"," ","w","i","c","h","t","i","g","e"," ","i","n","f","o","r","m","a","t","i","o","n","e","n">>)
            \/ includes(lineLower, <<"w","e","i","t","e","r","e"," ","i","n","f","o","r","m","a","t","i","o","n","e","n">>) THEN 9
    ELSE 0

TopicFlags == {"inVergleichAllgemein", "inTechnischeUnterschiede",
               "inPreisLeistung", "inWannBesser"}
ListFlags == {"inVorteile", "inNachteile", "inWeitereInfo"}

\* lines 1403-1471: what the heading h does to the scan
applyVergleichHeading(sc, h) ==
    CASE h = 1 ->
           [sc EXCEPT !.flags = (@ \ (TopicFlags \cup ListFlags))
                                  \cup {"inVergleichAllgemein"},
                      !.currentSection = "none"]
      [] h = 2 ->
           [sc EXCEPT !.flags = (@ \ TopicFlags)
                                  \cup {"inTechnischeUnterschiede"},
                      !.currentSection = "none"]
      [] h = 3 ->
           [sc EXCEPT !.flags = (@ \ TopicFlags) \cup {"inPreisLeistung"},
                      !.currentSection = "none"]
      [] h = 4 ->
           [sc EXCEPT !.flags = (@ \ TopicFlags) \cup {"inWannBesser"},
                      !.currentSection = "none"]
      [] h = 5 ->
           [sc EXCEPT !.flags = @ \ (TopicFlags \cup ListFlags),
                      !.currentSection = "produkt1_alles"]
      [] h = 6 ->
           [sc EXCEPT !.flags = @ \ (TopicFlags \cup ListFlags),
                      !.currentSection = "produkt2_alles"]
      [] h = 7 ->
           [sc EXCEPT !.flags = (@ \ ListFlags) \cup {"inVorteile"}]
      [] h = 8 ->
           [sc EXCEPT !.flags = (@ \ ListFlags) \cup {"inNachteile"}]
      [] h = 9 ->
           [sc EXCEPT !.flags = (@ \ ListFlags) \cup {"inWeitereInfo"}]

\* lines 1474-1532: the list a bulleted line of the comparison section goes
\* to, as <<list>> or <<owner, list>>, << >> for none
vergleichTarget(fl, sub) ==
    IF "inVergleichAllgemein" \in fl THEN <<"vergleich_allgemein">>
    ELSE IF "inTechnischeUnterschiede" \in fl
    THEN <<"technische_unterschiede">>
    ELSE IF "inPreisLeistung" \in fl THEN <<"preis_leistung">>
    ELSE IF "inWannBesser" \in fl THEN <<"wann_besser">>
    ELSE IF sub \in {"produkt1_alles", "produkt2_alles"}
    THEN IF "inVorteile" \in fl THEN <<sub, "vorteile">>
         ELSE IF "inNachteile" \in fl THEN <<sub, "nachteile">>
         ELSE IF "inWeitereInfo" \in fl THEN <<sub, "weitere_info">>
         ELSE << >>
    ELSE << >>

\* lines 1474-1532: a line that is no heading, in the comparison section
vergleichContent(sc, l) ==
    LET target == vergleichTarget(sc.flags, sc.currentSection)
        content == bulletContent(l)
    IN IF target = << >> \/ ~isBullet(l) \/ Len(content) <= 10 THEN sc
       ELSE IF Len(target) = 1
       THEN [sc EXCEPT !.result.vergleich[target[1]] = Append(@, content)]
       ELSE [sc EXCEPT !.result.vergleich[target[1]][target[2]] =
                           Append(@, content)]

\* the loop without the continue statements of lines 1313-1347
lineStepFallThrough(sc, raw) ==
    LET l == trim(raw)
        lineLower == toLowerCase(l)
        headed == IF productHeading(lineLower) > 0
                  THEN applyProductHeading(sc, productHeading(lineLower))
                  ELSE sc
    IN IF sc.currentProduct \in {"produkt1", "produkt2"}
       THEN productContent(headed, l)
       ELSE IF sc.currentProduct = "vergleich"
       THEN IF vergleichHeading(lineLower, sc.currentSection) > 0
            THEN applyVergleichHeading(
                     headed, vergleichHeading(lineLower, sc.currentSection))
            ELSE vergleichContent(headed, l)
       ELSE headed
\* lines 1308-1534: one turn of the loop over the lines of a section
lineStep(sc, raw) ==
    LET l == trim(raw)
        lineLower == toLowerCase(l)
    IN IF productHeading(lineLower) > 0
       THEN applyProductHeading(sc, productHeading(lineLower))
       ELSE IF sc.currentProduct \in {"produkt1", "produkt2"}
       THEN productContent(sc, l)
       ELSE IF sc.currentProduct = "vergleich"
       THEN IF vergleichHeading(lineLower, sc.currentSection) > 0
            THEN applyVergleichHeading(
                     sc, vergleichHeading(lineLower, sc.currentSection))
            ELSE vergleichContent(sc, l)
       ELSE sc

RECURSIVE linesLoop(_, _)
linesLoop(sc, ls) ==
    IF ls = << >> THEN sc ELSE linesLoop(lineStep(sc, Head(ls)), Tail(ls))

\* lines 1276-1535: the loop over the sections
RECURSIVE sectionsLoop(_, _, _)
sectionsLoop(sc, secs, names) ==
    IF secs = << >> THEN sc
    ELSE LET owner == ownerOf(Head(secs), names, sc.currentProduct)
             entered == [sc EXCEPT !.currentProduct = owner, !.flags = {}]
         IN sectionsLoop(
                IF owner = "none" THEN sc
                ELSE linesLoop(entered, split(Head(secs), "\n")),
                Tail(secs), names)

\* lines 1538-1558
cleanupProdukt(p) ==
    [p EXCEPT !.kurzbeschreibung = substring(trim(@), 500),
              !.empfehlung = substring(trim(@), 300),
              !.einsatzgebiete = substring(@, 5)]
\* a return without lines 1537-1558
cleanupSkipped(res) == res
cleanup(res) ==
    [res EXCEPT !.produkt1 = cleanupProdukt(@),
                !.produkt2 = cleanupProdukt(@),
                !.vergleich.vergleich_text = substring(trim(@), 1000)]

\* the result of a call that does not throw
structure(text, prods) ==
    IF missingArgument(text, prods) \/ tooFewProducts(prods) THEN EmptyResult
    ELSE cleanup(sectionsLoop(Scan(EmptyResult, "none", "none", {}),
                              splitOn(coerced(text), <<"=","=","=">>),
                              namesOf(prods)).result)

\* lines 2057-2064
hasVergleichContent(res) ==
    LET vergleich == res.vergleich
    IN \/ Len(vergleich.vergleich_allgemein) > 0
       \/ Len(vergleich.produkt1_alles.vorteile) > 0
       \/ Len(vergleich.produkt1_alles.nachteile) > 0
       \/ Len(vergleich.produkt1_alles.weitere_info) > 0
       \/ Len(vergleich.produkt2_alles.vorteile) > 0
       \/ Len(vergleich.produkt2_alles.nachteile) > 0
       \/ Len(vergleich.produkt2_alles.weitere_info) > 0

\* line 2165: responseText && responseText.length > 50
longText(text) ==
    /\ Truthy(text)
    /\ text.t \in {"str", "arr"}
    /\ Len(text.v) > 50

----------------------------------------------------------------------------
(* The calls of extractStructuredComparison that are checked: a narrative   *)
(* of at most MaxNarrativeLines lines of NarrativePool for the products     *)
(* Alpha and Beta, and the narratives of TextPool for the product lists of  *)
(* ProductsPool.  performCompare then picks what it shows.                  *)

MaxNarrativeLines == 3

NarrativePool == {
    <<"=","=","="," ","P","r","o","d","u","k","t"," ","1"," ","=","=","=">>,
    <<"=","=","="," ","P","r","o","d","u","k","t"," ","2"," ","=","=","=">>,
    <<"=","=","="," ","P","r","o","d","u","k","t","v","e","r","g","l","e","i","c","h"," ","=","=","=">>,
    <<"E","i","n","s","a","t","z","g","e","b","i","e","t","e",":">>,
    <<"E","m","p","f","e","h","l","u","n","g",":"," ","A","l","p","h","a">>,
    <<"T","e","c","h","n","i","s","c","h","e"," ","U","n","t","e","r","s","c","h","i","e","d","e",":">>,
    <<"-"," ","f","u","e","r"," ","g","r","o","s","s","e"," ","A","n","l","a","g","e","n">>,
    <<"A","l","p","h","a"," ","u","n","d"," ","B","e","t","a"," ","i","m"," ","V","e","r","g","l","e","i","c","h">>
    }

RECURSIVE NarrativeSeqs(_)
NarrativeSeqs(k) ==
    IF k = 0 THEN {<< >>}
    ELSE NarrativeSeqs(k - 1)
         \cup {Append(ls, l) : ls \in NarrativeSeqs(k - 1),
                               l \in NarrativePool}

ProductA == Obj(<<KV(<<"a","r","t","i","k","e","l","n","a","m","e">>, Str(<<"A","l","p","h","a">>)),
                  KV(<<"a","r","t","i","k","e","l","n","u","m","m","e","r">>, Str(<<"A","1">>))>>)
ProductB == Obj(<<KV(<<"a","r","t","i","k","e","l","n","a","m","e">>, Str(<<"B","e","t","a">>)),
                  KV(<<"a","r","t","i","k","e","l","n","u","m","m","e","r">>, Str(<<"B","2">>))>>)

ProductsPool == {
    Null,
    Arr(<< >>),
    Arr(<<ProductA>>),
    Arr(<<ProductA, ProductB>>),
    Arr(<<ProductB, ProductA>>),
    Arr(<<ProductA, Obj(<<KV(<<"a","r","t","i","k","e","l","n","a","m","e">>, Str(<<"B","e","t","a">>)),
                          KV(<<"a","r","t","i","k","e","l","n","u","m","m","e","r">>, Num(7))>>)>>),
    Arr(<<ProductA, Obj(<<KV(<<"a","r","t","i","k","e","l","n","a","m","e">>, Str(<<"G","a","m","m","a">>))>>)>>)
    }

Narrative1 ==
    <<"=","=","="," ","P","r","o","d","u","k","t"," ","1"," ","=","=","=","\n","E","i","n","s","a","t","z","g","e","b","i","e","t","e",":","\n","-"," ","f","u","e","r"," ","g","r","o","s","s","e"," ","A","n","l","a","g","e","n">>
Narrative2 ==
    <<"=","=","="," ","P","r","o","d","u","k","t","v","e","r","g","l","e","i","c","h"," ","=","=","=","\n","T","e","c","h","n","i","s","c","h","e"," ","U","n","t","e","r","s","c","h","i","e","d","e",":","\n","-"," ","f","u","e","r"," ","g","r","o","s","s","e"," ","A","n","l","a","g","e","n">>

\* narratives of MaxBullets bullet lines under one sub-heading
MaxBullets == 6
Bullets == [i \in 1..MaxBullets |-> <<"-"," ","f","u","e","r"," ","g","r","o","s","s","e"," ","A","n","l","a","g","e","n">>]
Narrative3 ==
    join(<<<<"=","=","="," ","P","r","o","d","u","k","t","v","e","r","g","l","e","i","c","h"," ","=","=","=">>, <<"V","e","r","g","l","e","i","c","h"," ","a","l","l","g","e","m","e","i","n",":">>>> \o Bullets,
         <<"\n">>)
Narrative4 ==
    join(<<<<"=","=","="," ","P","r","o","d","u","k","t"," ","1"," ","=","=","=">>, <<"E","i","n","s","a","t","z","g","e","b","i","e","t","e",":">>>> \o Bullets, <<"\n">>)

\* a short description with a compatibility line and a short bullet, and a
\* general comparison with a short and a long bullet
Narrative5 ==
    join(<<<<"=","=","="," ","P","r","o","d","u","k","t"," ","2"," ","=","=","=">>, <<"K","u","r","z","b","e","s","c","h","r","e","i","b","u","n","g",":">>,
           <<"B","e","t","a"," ","i","s","t"," ","k","o","m","p","a","t","i","b","e","l"," ","m","i","t"," ","W","e","c","h","s","e","l","r","i","c","h","t","e","r","n">>, <<"-"," ","k","u","r","z">>,
           <<"-"," ","f","u","e","r"," ","g","r","o","s","s","e"," ","A","n","l","a","g","e","n">>>>, <<"\n">>)
Narrative6 ==
    join(<<<<"=","=","="," ","P","r","o","d","u","k","t","v","e","r","g","l","e","i","c","h"," ","=","=","=">>, <<"V","e","r","g","l","e","i","c","h"," ","a","l","l","g","e","m","e","i","n",":">>, <<"-"," ","k","u","r","z">>,
           <<"-"," ","f","u","e","r"," ","g","r","o","s","s","e"," ","A","n","l","a","g","e","n">>, <<"K","u","r","z","b","e","s","c","h","r","e","i","b","u","n","g",":">>>>, <<"\n">>)

\* a comparison with the sub-headings of the two products
Narrative7 ==
    join(<<<<"=","=","="," ","P","r","o","d","u","k","t","v","e","r","g","l","e","i","c","h"," ","=","=","=">>, <<"P","r","o","d","u","k","t"," ","1",":">>, <<"V","o","r","t","e","i","l","e",":">>,
           <<"-"," ","s","e","h","r"," ","h","o","h","e","r"," ","W","i","r","k","u","n","g","s","g","r","a","d">>, <<"P","r","o","d","u","k","t"," ","2",":">>, <<"N","a","c","h","t","e","i","l","e",":">>,
           <<"-"," ","f","u","e","r"," ","g","r","o","s","s","e"," ","A","n","l","a","g","e","n">>, <<"W","e","i","t","e","r","e"," ","I","n","f","o","r","m","a","t","i","o","n","e","n",":">>,
           <<"-"," ","w","a","r","t","u","n","g","s","f","r","e","i"," ","u","n","d"," ","l","e","i","s","e">>>>, <<"\n">>)

\* bullets with wide gaps, one with 10 and one with 11 characters of content
Narrative8 ==
    join(<<<<"=","=","="," ","P","r","o","d","u","k","t"," ","1"," ","=","=","=">>, <<"E","i","n","s","a","t","z","g","e","b","i","e","t","e",":">>,
           <<"-"," "," "," ","f","u","e","r"," ","g","r","o","s","s","e"," ","A","n","l","a","g","e","n"," "," ">>, <<"-"," "," ","k","n","a","p","p"," ","z","e","h","n"," ">>, <<"-"," ","e","l","f"," ","Z","e","i","c","h","e","n">>>>,
         <<"\n">>)

\* a section of product 1 with more text than the result keeps
Narrative9 ==
    join(<<<<"=","=","="," ","P","r","o","d","u","k","t"," ","1"," ","=","=","=">>, <<"K","u","r","z","b","e","s","c","h","r","e","i","b","u","n","g",":">>>>
         \o [i \in 1..25 |-> <<"A","l","p","h","a"," ","l","i","e","f","e","r","t"," ","h","o","h","e"," ","L","e","i","s","t","u","n","g">>]
         \o <<<<"E","m","p","f","e","h","l","u","n","g",":">>>>
         \o [i \in 1..12 |-> <<"A","l","p","h","a"," ","l","i","e","f","e","r","t"," ","h","o","h","e"," ","L","e","i","s","t","u","n","g">>]
         \o <<<<"E","i","n","s","a","t","z","g","e","b","i","e","t","e",":">>>> \o Bullets, <<"\n">>)

TextPool == {
    Null, Str(<< >>), Num(5), Bool(TRUE),
    Str(Narrative1), Str(Narrative2), Str(Narrative3), Str(Narrative4),
    Str(Narrative5), Str(Narrative6), Str(Narrative7), Str(Narrative8),
    Str(Narrative9),
    Arr(<<Str(Narrative1)>>), Arr(<<Str(Narrative2)>>)
    }

Calls ==
    {<<Str(join(ls, <<"\n">>)), Arr(<<ProductA, ProductB>>)>> :
        ls \in NarrativeSeqs(MaxNarrativeLines)}
    \cup (TextPool \X ProductsPool)

CStart ==
    /\ c_pc = "call"
    /\ \E c \in Calls : responseText = c[1] /\ products = c[2]
    /\ result = EmptyResult
    /\ sections = << >>
    /\ currentProduct = "none"
    /\ currentSection = "none"
    /\ flags = {}
    /\ sectionIdx = 0
    /\ cLineIdx = 0
    /\ display = "none"

CIdle ==
    /\ c_pc = "idle"
    /\ responseText = Null
    /\ products = Null
    /\ result = EmptyResult
    /\ sections = << >>
    /\ currentProduct = "none"
    /\ currentSection = "none"
    /\ flags = {}
    /\ sectionIdx = 0
    /\ cLineIdx = 0
    /\ display = "none"

returnsEarly == missingArgument(responseText, products)
                    \/ tooFewProducts(products)

\* lines 1256-1258
CReturnEmpty ==
    /\ c_pc = "call"
    /\ returnsEarly
    /\ c_pc' = "returned"
    /\ UNCHANGED <<responseText, products, result, sections, currentProduct,
                   currentSection, flags, sectionIdx, cLineIdx, display,
                   n_vars, m_vars, g_vars>>

\* lines 1265-1268: a product that is null or a name that is no string
CThrow ==
    /\ c_pc = "call"
    /\ ~returnsEarly
    /\ namesThrow(products)
    /\ c_pc' = "threw"
    /\ UNCHANGED <<responseText, products, result, sections, currentProduct,
                   currentSection, flags, sectionIdx, cLineIdx, display,
                   n_vars, m_vars, g_vars>>

\* lines 1260-1274
CSplit ==
    /\ c_pc = "call"
    /\ ~returnsEarly
    /\ ~namesThrow(products)
    /\ sections' = splitOn(coerced(responseText), <<"=","=","=">>)
    /\ sectionIdx' = 1
    /\ currentProduct' = "none"
    /\ currentSection' = "none"
    /\ c_pc' = "sections"
    /\ UNCHANGED <<responseText, products, result, flags, cLineIdx, display,
                   n_vars, m_vars, g_vars>>

section == sections[sectionIdx]
AtSection == c_pc = "sections" /\ sectionIdx <= Len(sections)

\* lines 1276-1292: a section without an owner
CSkipSection ==
    /\ AtSection
    /\ ownerOf(section, namesOf(products), currentProduct) = "none"
    /\ sectionIdx' = sectionIdx + 1
    /\ UNCHANGED <<c_pc, responseText, products, result, sections,
                   currentProduct, currentSection, flags, cLineIdx, display,
                   n_vars, m_vars, g_vars>>

\* lines 1276-1306
CEnterSection ==
    /\ AtSection
    /\ ownerOf(section, namesOf(products), currentProduct) # "none"
    /\ currentProduct' = ownerOf(section, namesOf(products), currentProduct)
    /\ flags' = {}
    /\ cLineIdx' = 1
    /\ c_pc' = "lines"
    /\ UNCHANGED <<responseText, products, result, sections, currentSection,
                   sectionIdx, display, n_vars, m_vars, g_vars>>

sectionLines == split(section, "\n")
AtLine == c_pc = "lines" /\ cLineIdx <= Len(sectionLines)
lineLowerNow == toLowerCase(trim(sectionLines[cLineIdx]))

\* one turn of the loop over the lines
CLine ==
    LET sc == lineStep(Scan(result, currentProduct, currentSection, flags),
                       sectionLines[cLineIdx])
    IN /\ result' = sc.result
       /\ currentSection' = sc.currentSection
       /\ flags' = sc.flags
       /\ cLineIdx' = cLineIdx + 1
       /\ UNCHANGED <<c_pc, responseText, products, sections, currentProduct,
                      sectionIdx, display, n_vars, m_vars, g_vars>>

\* lines 1313-1347
CLineHeading ==
    /\ AtLine
    /\ productHeading(lineLowerNow) > 0
    /\ CLine

\* lines 1350-1400
CLineProductContent ==
    /\ AtLine
    /\ productHeading(lineLowerNow) = 0
    /\ currentProduct \in {"produkt1", "produkt2"}
    /\ CLine

\* lines 1403-1471
CLineVergleichHeading ==
    /\ AtLine
    /\ productHeading(lineLowerNow) = 0
    /\ currentProduct = "vergleich"
    /\ vergleichHeading(lineLowerNow, currentSection) > 0
    /\ CLine

\* lines 1474-1532
CLineVergleichContent ==
    /\ AtLine
    /\ productHeading(lineLowerNow) = 0
    /\ currentProduct = "vergleich"
    /\ vergleichHeading(lineLowerNow, currentSection) = 0
    /\ CLine

\* line 1308: the lines of the section are used up
CEndSection ==
    /\ c_pc = "lines"
    /\ cLineIdx > Len(sectionLines)
    /\ c_pc' = "sections"
    /\ sectionIdx' = sectionIdx + 1
    /\ UNCHANGED <<responseText, products, result, sections, currentProduct,
                   currentSection, flags, cLineIdx, display, n_vars, m_vars,
                   g_vars>>

\* lines 1537-1561
CCleanupAndReturn ==
    /\ c_pc = "sections"
    /\ sectionIdx > Len(sections)
    /\ result' = cleanup(result)
    /\ c_pc' = "returned"
    /\ UNCHANGED <<responseText, products, sections, currentProduct,
                   currentSection, flags, sectionIdx, cLineIdx, display,
                   n_vars, m_vars, g_vars>>

\* performCompare, lines 1809 and 2057-2183: the card shown for the result
PShow ==
    /\ c_pc = "returned"
    /\ products.t = "arr" /\ Len(products.v) > 0
    /\ display' = IF hasVergleichContent(result) THEN "structured"
                  ELSE IF longText(responseText) THEN "fallback"
                  ELSE "warning"
    /\ c_pc' = "shown"
    /\ UNCHANGED <<responseText, products, result, sections, currentProduct,
                   currentSection, flags, sectionIdx, cLineIdx, n_vars,
                   m_vars, g_vars>>

\* performCompare, lines 2213-2215: the call threw
PShowError ==
    /\ c_pc = "threw"
    /\ display' = "error"
    /\ c_pc' = "failed"
    /\ UNCHANGED <<responseText, products, result, sections, currentProduct,
                   currentSection, flags, sectionIdx, cLineIdx, n_vars,
                   m_vars, g_vars>>

CNext ==
    \/ CReturnEmpty
    \/ CThrow
    \/ CSplit
    \/ CSkipSection
    \/ CEnterSection
    \/ CLineHeading
    \/ CLineProductContent
    \/ CLineVergleichHeading
    \/ CLineVergleichContent
    \/ CEndSection
    \/ CCleanupAndReturn
    \/ PShow
    \/ PShowError

----------------------------------------------------------------------------
(* A session of the page: the converters are called one after the other,   *)
(* each call running to its end before the next begins, and between the    *)
(* calls sendMessage extends conversationHistory and loadPrompts sets      *)
(* promptsData.  calls is the list of the finished calls with their        *)
(* arguments and results.                                                  *)

MaxCalls == 3
MaxHistory == 1

\* lines 5 and 2309, and the empty chat list of the page
GInit ==
    /\ conversationHistory = << >>
    /\ promptsData = Null
    /\ calls = << >>
    /\ chat = << >>
    /\ now = 0
    /\ requests = << >>
    /\ arrived = << >>
    /\ sent = 0

NArgs == {
    <<Obj(<<KV(<<"p","r","o","d","u","k","t","t","y","p">>, Str(<<"b","a","t","t","e","r","i","e">>))>>),
      Obj(<<KV(<<"b","a","t","t","e","r","i","e","_","s","p","e","z","i","f","i","k","a","t","i","o","n","e","n">>,
               Obj(<<KV(<<"k","a","p","a","z","i","t","a","e","t","_","k","w","h">>, Num(5)),
                     KV(<<"b","m","s">>, Bool(TRUE))>>))>>)>>,
    <<Obj(<<KV(<<"p","r","o","d","u","k","t","t","y","p">>, Str(<<"b","a","t","t","e","r","i","e">>))>>),
      Obj(<<KV(<<"e","i","g","e","n","s","c","h","a","f","t","e","n">>, Obj(<<KV(<<"n","o","t","s","t","r","o","m">>, Bool(TRUE))>>))>>)>>
    }

MArgs == {
    << >>,
    <<"#"," ","T","\n","-"," ","a","\n","-","-","-","\n","s","e","e"," ","[","a","]","(","x",")"," ","*","*","b","*","*"," ","*","i","*"," ","bt","q","bt","\n","bt","bt","bt","c","bt","bt","bt","\n","x">>
    }

CArgs == {
    <<Null, Arr(<<ProductA, ProductB>>)>>,
    <<Str(Narrative1),
      Arr(<<ProductA, Obj(<<KV(<<"a","r","t","i","k","e","l","n","a","m","e">>, Str(<<"B","e","t","a">>)),
                            KV(<<"a","r","t","i","k","e","l","n","u","m","m","e","r">>, Num(7))>>)>>)>>,
    <<Str(<<"I","m"," ","V","e","r","g","l","e","i","c","h","\n">> \o Narrative1 \o <<"\n">> \o Narrative2),
      Arr(<<ProductA, ProductB>>)>>
    }

\* no converter is running
AllIdle == n_pc = "idle" /\ m_pc = "idle" /\ c_pc = "idle"

Call(fn, args, threw, value) ==
    [fn |-> fn, args |-> args, threw |-> threw, value |-> value]

\* line 246: a call of extractAllTechnicalSpecs begins with fresh locals
NCall ==
    /\ AllIdle
    /\ Len(calls) < MaxCalls
    /\ \E a \in NArgs : product' = a[1] /\ payload' = a[2]
    /\ n_pc' = "call"
    /\ specs' = EmptySt.specs
    /\ seenKeys' = EmptySt.seenKeys
    /\ offered' = EmptySt.offered
    /\ UNCHANGED <<m_vars, c_vars, g_vars>>

\* line 1045: the caller takes the list
NTake ==
    /\ n_pc \in {"returned", "threw"}
    /\ n_pc' = "idle"
    /\ calls' = Append(calls, Call("extractAllTechnicalSpecs",
                                   <<product, payload>>, n_pc = "threw",
                                   IF n_pc = "threw" THEN << >> ELSE specs))
    /\ UNCHANGED <<product, payload, specs, seenKeys, offered, m_vars,
                   c_vars, conversationHistory, promptsData, s_vars>>

\* line 8: a call of markdownToHTML begins
MCall ==
    /\ AllIdle
    /\ Len(calls) < MaxCalls
    /\ markdown' \in MArgs
    /\ m_pc' = "call"
    /\ html' = << >>
    /\ codeBlocks' = << >>
    /\ lines' = << >>
    /\ lineIdx' = 0
    /\ processedLines' = << >>
    /\ inList' = FALSE
    /\ inCodeBlock' = FALSE
    /\ UNCHANGED <<n_vars, c_vars, g_vars>>

\* line 190: the caller takes the html
MTake ==
    /\ m_pc = "done"
    /\ m_pc' = "idle"
    /\ calls' = Append(calls, Call("markdownToHTML", <<markdown>>, FALSE,
                                   html))
    /\ UNCHANGED <<markdown, html, codeBlocks, lines, lineIdx,
                   processedLines, inList, inCodeBlock, n_vars, c_vars,
                   conversationHistory, promptsData, s_vars>>

\* lines 1225-1254: a call of extractStructuredComparison begins
CCall ==
    /\ AllIdle
    /\ Len(calls) < MaxCalls
    /\ \E a \in CArgs : responseText' = a[1] /\ products' = a[2]
    /\ c_pc' = "call"
    /\ result' = EmptyResult
    /\ sections' = << >>
    /\ currentProduct' = "none"
    /\ currentSection' = "none"
    /\ flags' = {}
    /\ sectionIdx' = 0
    /\ cLineIdx' = 0
    /\ display' = "none"
    /\ UNCHANGED <<n_vars, m_vars, g_vars>>

\* line 1850: performCompare is through with the result
CTake ==
    /\ c_pc \in {"shown", "failed"}
    /\ c_pc' = "idle"
    /\ calls' = Append(calls, Call("extractStructuredComparison",
                                   <<responseText, products>>,
                                   c_pc = "failed",
                                   IF c_pc = "failed" THEN EmptyResult
                                   ELSE result))
    /\ UNCHANGED <<responseText, products, result, sections, currentProduct,
                   currentSection, flags, sectionIdx, cLineIdx, display,
                   n_vars, m_vars, conversationHistory, promptsData, s_vars>>

\* lines 167-171: sendMessage appends the pair of a finished exchange
GPushHistory ==
    /\ AllIdle
    /\ Len(conversationHistory) < 2 * MaxHistory
    /\ conversationHistory' =
          conversationHistory
              \o <<[role |-> "user", content |-> Str(<<"F","r","a","g","e">>)],
                   [role |-> "assistant", content |-> Str(<<"A","n","t","w","o","r","t">>)]>>
    /\ UNCHANGED <<promptsData, calls, s_vars, n_vars, m_vars, c_vars>>

\* line 2327: loadPrompts stores the data of the response
GLoadPrompts ==
    /\ AllIdle
    /\ promptsData = Null
    /\ promptsData' = Obj(<<KV(<<"c","a","t","e","g","o","r","i","e","s">>, Arr(<< >>))>>)
    /\ UNCHANGED <<conversationHistory, calls, s_vars, n_vars, m_vars,
                   c_vars>>

SessionNext ==
    \/ NCall
    \/ NNext
    \/ NTake
    \/ MCall
    \/ MNext
    \/ MTake
    \/ CCall
    \/ CNext
    \/ CTake
    \/ GPushHistory
    \/ GLoadPrompts

----------------------------------------------------------------------------
(* sendMessage, addMessage and removeMessage.  A call of sendMessage runs  *)
(* up to its await in one step; the rest of it runs when the response of   *)
(* its request arrives, in any order among the requests in flight.  The    *)
(* id 'msg-' + Date.now() of an element is written as the number of        *)
(* milliseconds; the field call of an element names the call of            *)
(* sendMessage that made it.                                               *)

MaxSends == 2
MaxClock == 2

\* what the user typed
Inputs == {<<" ">>, <<"h","a","l","l","o">>, <<" ","p","r","e","i","s"," ">>}

\* the fetch of line 143 is rejected (no connection, or a body that is no
\* JSON), or it gives a body with a status; fetch does not reject for a
\* status outside 200-299, and sendMessage does not read response.ok
Rejected == [rejected |-> TRUE, ok |-> FALSE, data |-> Undefined]
Body(ok, data) == [rejected |-> FALSE, ok |-> ok, data |-> data]
Responses == {
    Rejected,
    Body(TRUE, Obj(<<KV(<<"r","e","s","p","o","n","s","e">>, Str(<<"A","n","t","w","o","r","t">>))>>)),
    Body(TRUE, Obj(<<KV(<<"r","e","s","p","o","n","s","e">>, Num(5))>>)),
    Body(FALSE, Obj(<<KV(<<"d","e","t","a","i","l">>, Str(<<"I","n","t","e","r","n","a","l"," ","S","e","r","v","e","r"," ","E","r","r","o","r">>))>>))
    }

LoadingMarkup == Str(<<"<","d","i","v"," ","c","l","a","s","s","=","\"","l","o","a","d","i","n","g","\"",">","<","/","d","i","v",">">>)

\* lines 179-209: the list with the new element at its end
addMessage(list, role, content, call) ==
    Append(list, [id |-> now, role |-> role, content |-> content,
                  call |-> call])

\* line 190: markdownToHTML(content) throws for a content that is neither
\* falsy nor a string (line 13: markdown.replace is not a function)
addMessageThrows(role, content) ==
    role = "assistant" /\ Truthy(content) /\ content.t # "str"

\* lines 211-216: document.getElementById gives the first element of the
\* document with the id
removeMessage(list, messageId) ==
    LET hits == {i \in 1..Len(list) : list[i].id = messageId}
    IN IF hits = {} THEN list
       ELSE LET first == CHOOSE i \in hits : \A j \in hits : i <= j
            IN SubSeq(list, 1, first - 1) \o SubSeq(list, first + 1, Len(list))

\* the clock moves on
STick ==
    /\ now < MaxClock
    /\ now' = now + 1
    /\ UNCHANGED <<chat, requests, arrived, sent, conversationHistory,
                   promptsData, calls, n_vars, m_vars, c_vars>>

\* lines 129-133: nothing but white space was typed
SSendBlank ==
    /\ sent < MaxSends
    /\ \E text \in Inputs : trim(text) = << >>
    /\ sent' = sent + 1
    /\ UNCHANGED <<chat, now, requests, arrived, conversationHistory,
                   promptsData, calls, n_vars, m_vars, c_vars>>

\* lines 129-152: the message and the loading element are shown and the
\* request is made; the clock may move on between the two calls of
\* addMessage
SSend ==
    /\ sent < MaxSends
    /\ \E text \in Inputs, later \in {now, now + 1} :
          /\ trim(text) # << >>
          /\ later <= MaxClock
          /\ chat' = Append(addMessage(chat, "user", Str(trim(text)),
                                       sent + 1),
                            [id |-> later, role |-> "assistant",
                             content |-> LoadingMarkup, call |-> sent + 1])
          /\ now' = later
          /\ requests' = Append(requests,
                                [call |-> sent + 1, message |-> trim(text),
                                 loadingId |-> later, pending |-> TRUE])
    /\ sent' = sent + 1
    /\ UNCHANGED <<arrived, conversationHistory, promptsData, calls, n_vars,
                   m_vars, c_vars>>

Pending(k) == k \in 1..Len(requests) /\ requests[k].pending

Arrive(k, r) ==
    /\ requests' = [requests EXCEPT ![k].pending = FALSE]
    /\ arrived' = Append(arrived, [call |-> requests[k].call, response |-> r])
    /\ UNCHANGED <<now, sent, promptsData, calls, n_vars, m_vars, c_vars>>

\* lines 154-171: the body arrived and the try block runs to its end
SAnswer ==
    \E k \in 1..Len(requests), r \in Responses :
        /\ Pending(k)
        /\ ~r.rejected
        /\ ~addMessageThrows("assistant", Get(r.data, <<"r","e","s","p","o","n","s","e">>))
        /\ chat' = addMessage(removeMessage(chat, requests[k].loadingId),
                              "assistant", Get(r.data, <<"r","e","s","p","o","n","s","e">>),
                              requests[k].call)
        /\ conversationHistory' =
              conversationHistory
                  \o <<[role |-> "user",
                        content |-> Str(requests[k].message)],
                       [role |-> "assistant",
                        content |-> Get(r.data, <<"r","e","s","p","o","n","s","e">>)]>>
        /\ Arrive(k, r)

\* lines 154-160 and 173-176: the body arrived, the loading element is
\* removed, addMessage throws and the catch block runs
SAnswerThrows ==
    \E k \in 1..Len(requests), r \in Responses :
        /\ Pending(k)
        /\ ~r.rejected
        /\ addMessageThrows("assistant", Get(r.data, <<"r","e","s","p","o","n","s","e">>))
        /\ chat' = addMessage(
                       removeMessage(
                           removeMessage(chat, requests[k].loadingId),
                           requests[k].loadingId),
                       "assistant", Str(<<"F","e","h","l","e","r",":"," ">>), requests[k].call)
        /\ UNCHANGED conversationHistory
        /\ Arrive(k, r)

\* lines 143-154 and 173-176: the request failed and the catch block runs
SCatch ==
    \E k \in 1..Len(requests), r \in Responses :
        /\ Pending(k)
        /\ r.rejected
        /\ chat' = addMessage(removeMessage(chat, requests[k].loadingId),
                              "assistant", Str(<<"F","e","h","l","e","r",":"," ">>), requests[k].call)
        /\ UNCHANGED conversationHistory
        /\ Arrive(k, r)

ChatNext ==
    \/ STick
    \/ SSendBlank
    \/ SSend
    \/ SAnswer
    \/ SAnswerThrows
    \/ SCatch

----------------------------------------------------------------------------
(* Specifications *)

InitNormalizer == NStart /\ MIdle /\ CIdle /\ GInit
SpecNormalizer == InitNormalizer /\ [][NNext]_vars

----------------------------------------------------------------------------
(* Claims about extractAllTechnicalSpecs *)

Returned == n_pc = "returned"
SameLabel(a, b) == toLowerCase(a) = toLowerCase(b)

\* C1: the returned list holds no two entries whose labels are equal under
\* case-insensitive comparison.
C1_UniqueLabels ==
    Returned =>
        \A i, j \in 1..Len(specs) :
            (i # j) => ~SameLabel(specs[i].label, specs[j].label)

\* a call returned in which a later field of an already seen label was
\* offered and turned down
C1_Witness ==
    /\ Returned
    /\ \E i, j \in 1..Len(offered) :
          /\ i < j
          /\ Truthy(offered[i].value) /\ Truthy(offered[j].value)
          /\ SameLabel(offered[i].label, offered[j].label)
          /\ offered[i].label # offered[j].label

\* C2: when two fields normalize to the same label and both have a
\* non-empty value, exactly one entry of that label is returned, with the
\* value and the priority of the field met first in the extraction order.
C2_FirstFieldWins ==
    Returned =>
        \A i, j \in 1..Len(offered) :
            (/\ i < j
             /\ SameLabel(offered[i].label, offered[j].label)
             /\ \A h \in 1..(i - 1) :
                    ~SameLabel(offered[h].label, offered[i].label))
            => /\ Cardinality({k \in 1..Len(specs) :
                      SameLabel(specs[k].label, offered[i].label)}) = 1
               /\ \E k \in 1..Len(specs) :
                      /\ specs[k].label = offered[i].label
                      /\ specs[k].priority = offered[i].priority

\* C3: each adjacent pair (a, b) of the returned list has a.priority >
\* b.priority, or equal priorities and a.label <= b.label in the collation.
C3_Sorted ==
    Returned =>
        \A i \in 1..(Len(specs) - 1) :
            \/ specs[i].priority > specs[i + 1].priority
            \/ /\ specs[i].priority = specs[i + 1].priority
               /\ localeCompare(specs[i].label, specs[i + 1].label) <= 0

\* a call returned two entries of one priority that were added in the
\* other order
C3_Witness ==
    /\ Returned
    /\ \E i \in 1..(Len(specs) - 1) :
          /\ specs[i].priority = specs[i + 1].priority
          /\ \E a, b \in 1..Len(offered) :
                /\ a < b
                /\ offered[a].label = specs[i + 1].label
                /\ offered[b].label = specs[i].label

\* C4: extractAllTechnicalSpecs never throws.
C4_NeverThrows == n_pc # "threw"

----------------------------------------------------------------------------
(* The battery example *)

BatteryExampleBlock ==
    Obj(<<KV(<<"k","a","p","a","z","i","t","a","e","t","_","k","w","h">>, Num(5)), KV(<<"b","m","s">>, Bool(TRUE))>>)

IsBatteryExample ==
    /\ produkttypOf(product) = <<"b","a","t","t","e","r","i","e">>
    /\ Get(payload, <<"b","a","t","t","e","r","i","e","_","s","p","e","z","i","f","i","k","a","t","i","o","n","e","n">>) = BatteryExampleBlock

----------------------------------------------------------------------------
(* Set products *)

\* C17: every entry emitted by the set-detection block has a priority
\* within 95..100, for every number of named components.
C17_SetBand ==
    (n_pc = "category") =>
        \A i \in 1..Len(specs) : specs[i].priority \in 95..100

\* the component has a sub-spec that is not null, undefined or ''
HasSubSpec(e) ==
    /\ Truthy(e.v)
    /\ IsObject(e.v)
    /\ \E i \in 1..Len(Entries(e.v)) : ~IsEmptyField(Entries(e.v)[i].v)

\* the named components with a non-empty sub-spec, in payload order
NamedComponents(p) ==
    IF IsObject(komponentenOf(p))
    THEN SelectSeq(Entries(komponentenOf(p)), HasSubSpec)
    ELSE << >>

ComponentLabel(k) == capitalizeFirst(replaceAllChar(k, "_", <<" ">>))

Present(label) == \E k \in 1..Len(specs) : specs[k].label = label
PositionOf(label) == CHOOSE k \in 1..Len(specs) : specs[k].label = label
HasPriority(label, priority) ==
    \E k \in 1..Len(specs) :
        specs[k].label = label /\ specs[k].priority = priority
Precedes(a, b) == (Present(a) /\ Present(b)) => PositionOf(a) < PositionOf(b)

----------------------------------------------------------------------------
(* Products of an unknown category *)

KnownCategories == {categoryTable[i][1] : i \in 1..Len(categoryTable)}

\* a value that is not null, undefined, '', an empty sequence or a mapping
\* without a non-empty field
NonEmptyValue(v) ==
    /\ ~IsEmptyField(v)
    /\ IsObject(v) =>
          \E i \in 1..Len(Entries(v)) : ~IsEmptyField(Entries(v)[i].v)

\* the entries of the payload under a key ending in '_spezifikationen'
\* whose value is a mapping
SpecMappings(p) ==
    SelectSeq(Entries(p),
              LAMBDA e : endsWith(e.k, <<"_","s","p","e","z","i","f","i","k","a","t","i","o","n","e","n">>) /\ e.v.t = "obj")

\* C19: when the declared category is none of the known categories and the
\* payload holds, under a key ending in '_spezifikationen', a mapping with a
\* non-empty field, the returned list holds an entry for every non-empty
\* field of that mapping, so it is not empty.
C19_UnknownCategoryKept ==
    (Returned /\ produkttypOf(product) \notin KnownCategories) =>
        \A m \in 1..Len(SpecMappings(payload)) :
            \A f \in 1..Len(SpecMappings(payload)[m].v.v) :
                LET field == SpecMappings(payload)[m].v.v[f]
                IN NonEmptyValue(field.v) => Present(autoLabel(field.k))

----------------------------------------------------------------------------
(* The cycle life of a battery or power station *)

IsStorageCategory == produkttypOf(product) \in {<<"b","a","t","t","e","r","i","e">>, <<"p","o","w","e","r","s","t","a","t","i","o","n">>}

\* the mapping under zykluslebensdauer in the specification of the category
CycleLife ==
    Get(Get(payload, produkttypOf(product) \o <<"_","s","p","e","z","i","f","i","k","a","t","i","o","n","e","n">>),
        <<"z","y","k","l","u","s","l","e","b","e","n","s","d","a","u","e","r">>)

\* lines 258-262: the pairs 'threshold - value', joined by ', '
cyclePairs(v) ==
    join([i \in 1..Len(Entries(v)) |->
             Entries(v)[i].k \o <<" ","-"," ">> \o StringOf(Entries(v)[i].v)], <<","," ">>)

\* C20: when the cycle life of a battery or power-station specification is
\* a non-empty mapping, the entry labelled 'Zyklenlebensdauer' of the
\* returned list has the comma-joined 'threshold - value' pairs as its value.
C20_CycleLife ==
    (Returned /\ IsStorageCategory /\ CycleLife.t = "obj"
        /\ Entries(CycleLife) # << >>) =>
        \A i \in 1..Len(specs) :
            specs[i].label = <<"Z","y","k","l","e","n","l","e","b","e","n","s","d","a","u","e","r">> =>
                specs[i].value = cyclePairs(CycleLife)

----------------------------------------------------------------------------
(* Numbers that are counts *)

\* keys that denote a count, and the labels their entries carry (line 491
\* and the automatic label)
CountKeys == {<<"m","p","p","t","_","a","n","z","a","h","l">>}
CountLabels == {<<"M","P","P","T"," ","A","n","z","a","h","l">>} \cup {autoLabel(k) : k \in CountKeys}

\* C25: a numeric field of a specification mapping whose key denotes a
\* count, not one of the quantities with a unit, is rendered as the bare
\* number: the entry that carries its label has the digits of the number as
\* its value.
C25_CountIsBare ==
    Returned =>
        \A m \in 1..Len(SpecMappings(payload)) :
            \A f \in 1..Len(SpecMappings(payload)[m].v.v) :
                LET field == SpecMappings(payload)[m].v.v[f]
                IN (field.k \in CountKeys /\ field.v.t = "num") =>
                       \A i \in 1..Len(specs) :
                           specs[i].label \in CountLabels =>
                               specs[i].value = numToString(field.v.v)

----------------------------------------------------------------------------
(* Empty values *)

\* null, undefined, '', an empty sequence, or a mapping without a non-empty
\* field
EmptyValue(v) == ~NonEmptyValue(v) \/ v = Arr(<< >>)

\* every field of the payload is empty, or a mapping of empty fields
AllFieldsEmpty(p) ==
    /\ p.t = "obj"
    /\ \A i \in 1..Len(p.v) :
          \/ EmptyValue(p.v[i].v)
          \/ /\ p.v[i].v.t = "obj"
             /\ \A j \in 1..Len(p.v[i].v.v) : EmptyValue(p.v[i].v.v[j].v)

\* C27: every entry of the returned list has a non-empty string as its
\* value, and fields that are null, undefined, '', an empty sequence or a
\* mapping without a non-empty field produce no entry: a payload of such
\* fields only returns the empty list.
C27_EmptySkipped ==
    Returned =>
        /\ \A i \in 1..Len(specs) : specs[i].value # << >>
        /\ AllFieldsEmpty(payload) => specs = << >>

----------------------------------------------------------------------------
(* Claims about markdownToHTML *)

InitRenderer == NIdle /\ MStart /\ CIdle /\ GInit
SpecRenderer == InitRenderer /\ [][MNext]_vars

Rendered == m_pc = "done"

IsLetter(c) == IndexIn(c, LowerChars) > 0 \/ IndexIn(c, UpperChars) > 0

\* index of the '>' that ends the tag whose text goes on at i, or 0: a '>'
\* inside a quoted attribute value does not end the tag
tagEnd(h, i) ==
    LET ends == {e \in i..Len(h) :
                    /\ h[e] = ">"
                    /\ Cardinality({q \in i..e : h[q] = "\""}) % 2 = 0}
    IN IF ends = {} THEN 0 ELSE Least(ends)

\* the list-open and list-close elements of the output h from the index
\* from on, as a reader of HTML finds them
RECURSIVE listTags(_, _)
listTags(h, from) ==
    LET starts == {i \in from..(Len(h) - 1) :
                      h[i] = "<" /\ (h[i + 1] = "/" \/ IsLetter(h[i + 1]))}
    IN IF starts = {} THEN << >>
       ELSE LET i == Least(starts)
                e == tagEnd(h, i + 1)
            IN IF e = 0 THEN << >>
               ELSE (IF SubSeq(h, i, e) = <<"<","u","l",">">> THEN <<"open">>
                     ELSE IF SubSeq(h, i, e) = <<"<","/","u","l",">">> THEN <<"close">>
                     ELSE << >>)
                    \o listTags(h, e + 1)

\* C6: the rendered output never leaves a list element open: list-open and
\* list-close elements alternate starting with an open, and a list still
\* open at the end of the input is closed before the output ends.
C6_ListsClosed ==
    Rendered =>
        LET tags == listTags(html, 1)
        IN /\ \A k \in 1..Len(tags) :
                  tags[k] = IF k % 2 = 1 THEN "open" ELSE "close"
           /\ Len(tags) % 2 = 0

\* C7: the content of every fenced code block appears in the rendered
\* output verbatim inside a block code element.
C7_CodeVerbatim ==
    Rendered =>
        \A b \in 1..Len(codeBlocks) :
            includes(html, <<"<","p","r","e",">","<","c","o","d","e",">">> \o codeBlocks[b].code
                               \o <<"<","/","c","o","d","e",">","<","/","p","r","e",">">>)

\* the number of fence markers of s from the index from on
RECURSIVE fenceCount(_, _)
fenceCount(s, from) ==
    LET i == indexOfFrom(s, Fence, from)
    IN IF i = 0 THEN 0 ELSE 1 + fenceCount(s, i + 3)

\* the index of the last fence marker of s from the index from on
RECURSIVE lastFence(_, _)
lastFence(s, from) ==
    LET i == indexOfFrom(s, Fence, from)
    IN IF i = 0 THEN 0
       ELSE IF indexOfFrom(s, Fence, i + 3) = 0 THEN i
       ELSE lastFence(s, i + 3)

\* what follows the last fence marker of s
Remainder(s) == SubSeq(s, lastFence(s, 1) + 3, Len(s))

\* C8: when the input holds an odd number of fence markers, everything
\* after the last, unmatched one is emitted as it stands: no heading, list,
\* rule or inline rule is applied to it.
C8_UnterminatedFence ==
    (Rendered /\ fenceCount(markdown, 1) % 2 = 1) =>
        includes(html, trim(Remainder(markdown)))

----------------------------------------------------------------------------
(* Heading lines *)

\* the line starts with k '#' followed by white space
IsHeadingLine(l, k) ==
    /\ Len(l) > k
    /\ \A i \in 1..k : l[i] = "#"
    /\ l[k + 1] \in WhiteChars

HeadingElement(l, k) ==
    <<"<","h">> \o <<Digits[k + 1]>> \o <<">">>
        \o trimStart(SubSeq(l, k + 1, Len(l)))
        \o <<"<","/","h">> \o <<Digits[k + 1]>> \o <<">">>

\* the step from the line under the scan emits its heading element, any
\* open list being closed right before it
HeadingStep ==
    \E k \in 1..3 :
        /\ IsHeadingLine(line, k)
        /\ processedLines' =
              processedLines
                  \o (IF inList THEN <<<<"<","/","u","l",">">>>> ELSE << >>)
                  \o <<HeadingElement(line, k)>>

\* C16: every line outside the fenced code spans that starts with '#',
\* '##' or '###' followed by white space is emitted as a heading element
\* of that level, an open list being closed right before it, also after a
\* complete fenced code block.
C16_HeadingsRendered ==
    [][(/\ Scanning
        /\ fenceCount(markdown, 1) % 2 = 0
        /\ ~includes(line, PlaceholderPrefix)
        /\ \E k \in 1..3 : IsHeadingLine(line, k))
       => HeadingStep]_vars

----------------------------------------------------------------------------
(* Line breaks *)

\* a line-break element starts at the index i of h
BreakAt(h, i) == i >= 1 /\ i + 3 <= Len(h) /\ SubSeq(h, i, i + 3) = <<"<","b","r",">">>

\* the index of what follows the element at i and the white space after
\* it, 0 at the end of h
AfterBreak(h, i) == firstNotIn(h, i + 4, WhiteChars)

\* three line-break elements with nothing but white space between them
TripleBreakAt(h, i) ==
    /\ BreakAt(h, i)
    /\ BreakAt(h, AfterBreak(h, i))
    /\ BreakAt(h, AfterBreak(h, AfterBreak(h, i)))

----------------------------------------------------------------------------
(* Claims about extractStructuredComparison and performCompare *)

InitComparison == NIdle /\ MIdle /\ CStart /\ GInit
SpecComparison == InitComparison /\ [][CNext]_vars

Structured == c_pc \in {"returned", "shown"}

FewerThanTwo(prods) ==
    Falsy(prods) \/ (prods.t = "arr" /\ Len(prods.v) < 2)

\* C5 as stated: the all-empty result is returned whenever the narrative is
\* empty, is not a string, or fewer than two products are supplied.
C5_EmptyForBadInput ==
    (/\ Structured
     /\ \/ Falsy(responseText)
        \/ responseText.t # "str"
        \/ FewerThanTwo(products))
    => result = EmptyResult

\* C5 amended: a call with an empty or missing narrative or with fewer than
\* two products returns the all-empty result; a narrative that is no string
\* is converted to a string and gives the result of that string.
C5_EmptyForMissingInput ==
    /\ (c_pc # "call" /\ (Falsy(responseText) \/ FewerThanTwo(products)))
       => (Structured /\ result = EmptyResult)
    /\ (Structured /\ responseText.t # "str")
       => result = structure(Str(StringOf(OrElse(responseText, Str(<< >>)))),
                             products)

\* a call returned the all-empty result for one product and a narrative
\* that gives a result for two
C5_Witness ==
    /\ c_pc = "returned"
    /\ products = Arr(<<ProductA>>)
    /\ Truthy(responseText)
    /\ result = EmptyResult
    /\ structure(responseText, Arr(<<ProductA, ProductB>>)) # EmptyResult

\* the text with the markers of the first and of the second product
\* exchanged; a name goes on naming its product
RECURSIVE swapText(_, _)
swapText(s, from) ==
    LET pairs == <<
            <<<<"P","r","o","d","u","k","t"," ","1">>, <<"P","r","o","d","u","k","t"," ","2">>>>, <<<<"P","r","o","d","u","k","t"," ","2">>, <<"P","r","o","d","u","k","t"," ","1">>>> >>
        hit(i, k) == /\ i + Len(pairs[k][1]) - 1 <= Len(s)
                     /\ SubSeq(s, i, i + Len(pairs[k][1]) - 1) = pairs[k][1]
        at == {i \in from..Len(s) : \E k \in 1..Len(pairs) : hit(i, k)}
    IN IF at = {} THEN SubSeq(s, from, Len(s))
       ELSE LET i == Least(at)
                k == Least({x \in 1..Len(pairs) : hit(i, x)})
            IN SubSeq(s, from, i - 1) \o pairs[k][2]
               \o swapText(s, i + Len(pairs[k][1]))

swapList(l) == [i \in 1..Len(l) |-> swapText(l[i], 1)]
swapProdukt(p) ==
    [einsatzgebiete |-> swapList(p.einsatzgebiete),
     kurzbeschreibung |-> swapText(p.kurzbeschreibung, 1),
     empfehlung |-> swapText(p.empfehlung, 1),
     verwendung |-> swapText(p.verwendung, 1),
     kompatibilitaet |-> swapText(p.kompatibilitaet, 1),
     eigenschaften |-> swapText(p.eigenschaften, 1)]
swapAlles(a) ==
    [vorteile |-> swapList(a.vorteile), nachteile |-> swapList(a.nachteile),
     weitere_info |-> swapList(a.weitere_info)]

\* the result with the structures of the two products exchanged
swapResult(res) ==
    [produkt1 |-> swapProdukt(res.produkt2),
     produkt2 |-> swapProdukt(res.produkt1),
     vergleich |->
        [vergleich_allgemein |-> swapList(res.vergleich.vergleich_allgemein),
         technische_unterschiede |->
             swapList(res.vergleich.technische_unterschiede),
         preis_leistung |-> swapList(res.vergleich.preis_leistung),
         wann_besser |-> swapList(res.vergleich.wann_besser),
         vergleich_text |-> swapText(res.vergleich.vergleich_text, 1),
         produkt1_alles |-> swapAlles(res.vergleich.produkt2_alles),
         produkt2_alles |-> swapAlles(res.vergleich.produkt1_alles)]]

TwoNamedProducts ==
    products \in {Arr(<<ProductA, ProductB>>), Arr(<<ProductB, ProductA>>)}

\* C9: the call with the two products exchanged and the markers of the
\* products exchanged in the narrative returns the result with the
\* structures of the two products exchanged, the rest being equal.
C9_Symmetry ==
    (c_pc = "returned" /\ TwoNamedProducts /\ responseText.t = "str")
    => structure(Str(swapText(responseText.v, 1)),
                 Arr(<<products.v[2], products.v[1]>>))
       = swapResult(result)

\* every bucket of the comparison is empty
AllBucketsEmpty(res) ==
    /\ res.vergleich.vergleich_allgemein = << >>
    /\ res.vergleich.technische_unterschiede = << >>
    /\ res.vergleich.preis_leistung = << >>
    /\ res.vergleich.wann_besser = << >>
    /\ res.vergleich.produkt1_alles = EmptyAlles
    /\ res.vergleich.produkt2_alles = EmptyAlles

\* C10: for a narrative that is a non-empty string, the fallback is shown
\* exactly when every bucket of the result is empty; a result with a
\* non-empty bucket is shown structured.
C10_FallbackIffEmpty ==
    (c_pc = "shown" /\ responseText.t = "str" /\ responseText.v # << >>) =>
        /\ (display = "fallback") <=> AllBucketsEmpty(result)
        /\ ~AllBucketsEmpty(result) => display = "structured"

----------------------------------------------------------------------------
(* The lists of the comparison result *)

\* the cap of the one list the cleanup truncates (einsatzgebiete)
ListCap == 5

\* every string list of a comparison result
ListsOf(res) ==
    {res.produkt1.einsatzgebiete, res.produkt2.einsatzgebiete,
     res.vergleich.vergleich_allgemein,
     res.vergleich.technische_unterschiede,
     res.vergleich.preis_leistung, res.vergleich.wann_besser,
     res.vergleich.produkt1_alles.vorteile,
     res.vergleich.produkt1_alles.nachteile,
     res.vergleich.produkt1_alles.weitere_info,
     res.vergleich.produkt2_alles.vorteile,
     res.vergleich.produkt2_alles.nachteile,
     res.vergleich.produkt2_alles.weitere_info}

\* C12: every string list of a returned comparison result is bounded in
\* length by the fixed cap, whatever the number of matching lines.
C12_ListsCapped ==
    Structured => \A l \in ListsOf(result) : Len(l) <= ListCap

----------------------------------------------------------------------------
(* Sections without an owner marker *)

\* the owner the markers of the section name, "none" when it holds none
markedOwner(sec) == ownerOf(sec, namesOf(products), "none")
HasMarker(sec) == markedOwner(sec) # "none"

\* the last section up to idx that holds a marker, 0 when there is none
LastMarked(idx) ==
    LET marked == {k \in 1..idx : HasMarker(sections[k])}
    IN IF marked = {} THEN 0
       ELSE CHOOSE k \in marked : \A h \in marked : h <= k

\* C14 as stated: while a section that holds none of the owner markers is
\* scanned the result does not change, also after a section with an owner.
C14_UnownedSkipped ==
    [][(c_pc = "lines" /\ ~HasMarker(section)) => result' = result]_vars

ScannedForLastMarked ==
    c_pc = "lines" =>
        /\ LastMarked(sectionIdx) > 0
        /\ currentProduct = markedOwner(sections[LastMarked(sectionIdx)])

UnownedStep ==
    (AtSection /\ ~HasMarker(section)) =>
        IF LastMarked(sectionIdx) = 0
        THEN c_pc' = "sections" /\ result' = result
             /\ sectionIdx' = sectionIdx + 1
        ELSE c_pc' = "lines"
             /\ currentProduct' =
                   markedOwner(sections[LastMarked(sectionIdx)])

\* C14: a section that holds none of the owner markers is skipped, and
\* contributes nothing, as long as no section before it held one; after a
\* section with an owner it is scanned for the owner of the nearest section
\* before it that holds a marker.
C14_UnownedInherits == []ScannedForLastMarked /\ [][UnownedStep]_vars

\* a section without a marker, coming after the marker 'Produkt 1', has put
\* an entry into the use cases of product 1
C14_Witness ==
    /\ c_pc = "lines"
    /\ ~HasMarker(section)
    /\ LastMarked(sectionIdx) > 0
    /\ result.produkt1.einsatzgebiete # << >>
    /\ \A k \in 1..(sectionIdx - 1) :
          ~includes(sections[k], <<"f","u","e","r"," ","g","r","o","s","s","e"," ","A","n","l","a","g","e","n">>)

----------------------------------------------------------------------------
(* The per-product lists of the comparison *)

NarrativeLines == split(responseText.v, "\n")

\* the narrative is one comparison section under its title line
IsComparisonNarrative ==
    /\ responseText.t = "str"
    /\ NarrativeLines[1] = <<"=","=","="," ","P","r","o","d","u","k","t","v","e","r","g","l","e","i","c","h"," ","=","=","=">>
    /\ \A i \in 2..Len(NarrativeLines) : ~includes(NarrativeLines[i], <<"=","=","=">>)

ProductSubHeading(n) == IF n = 1 THEN <<"p","r","o","d","u","k","t"," ","1",":">> ELSE <<"p","r","o","d","u","k","t"," ","2",":">>
AllesOf(res, n) ==
    IF n = 1 THEN res.vergleich.produkt1_alles
    ELSE res.vergleich.produkt2_alles

\* the bulleted lines right after the sub-heading of product n and the
\* list heading are in the list of product n
Routed(n, heading, list) ==
    \A i \in 1..Len(NarrativeLines) : \A l \in (i + 2)..Len(NarrativeLines) :
        (/\ toLowerCase(trim(NarrativeLines[i])) = ProductSubHeading(n)
         /\ includes(toLowerCase(NarrativeLines[i + 1]), heading)
         /\ \A m \in (i + 2)..l : isBullet(trim(NarrativeLines[m]))
         /\ Len(bulletContent(trim(NarrativeLines[l]))) > 10)
        => \E e \in 1..Len(list) :
               list[e] = bulletContent(trim(NarrativeLines[l]))

\* C15: in a comparison section the bulleted lines (content longer than 10
\* characters) after a 'Produkt 1:' (resp. 'Produkt 2:') sub-heading and a
\* 'Vorteile:' / 'Nachteile:' / 'Weitere Informationen' sub-heading are in
\* the advantages / disadvantages / other-notes list of that product in
\* the shared structure.
C15_AllesRouted ==
    (Structured /\ ~returnsEarly /\ IsComparisonNarrative) =>
        \A n \in 1..2 :
            /\ Routed(n, <<"v","o","r","t","e","i","l","e",":">>, AllesOf(result, n).vorteile)
            /\ Routed(n, <<"n","a","c","h","t","e","i","l","e",":">>, AllesOf(result, n).nachteile)
            /\ Routed(n, <<"w","e","i","t","e","r","e"," ","i","n","f","o","r","m","a","t","i","o","n","e","n">>,
                      AllesOf(result, n).weitere_info)

----------------------------------------------------------------------------
(* The flags of the scan *)

SubStateFlags == {"inEinsatzgebiete", "inKurzbeschreibung", "inEmpfehlung",
                  "inVergleichAllgemein", "inTechnischeUnterschiede",
                  "inPreisLeistung", "inWannBesser", "inVorteile",
                  "inNachteile", "inWeitereInfo"}

\* C21: during the scan of a section, after every line, at most one of the
\* flags for use cases, short description, recommendation, general
\* comparison, technical differences, price/value, when-better, advantages,
\* disadvantages and other notes is true.
C21_FlagsExclusive ==
    (c_pc = "lines") => Cardinality(flags \cap SubStateFlags) <= 1

----------------------------------------------------------------------------
(* The entries of the lists *)

\* the trimmed lines of the sections of the call
SectionLines ==
    UNION {{trim(split(sections[i], "\n")[j]) :
               j \in 1..Len(split(sections[i], "\n"))} :
           i \in 1..Len(sections)}

\* C22: every entry of a list of the comparison result is the text of a
\* bulleted line of the narrative without its bullet prefix, is trimmed and
\* is longer than 10 characters.
C22_EntriesAreBullets ==
    \A l \in ListsOf(result) :
        \A i \in 1..Len(l) :
            /\ Len(l[i]) > 10
            /\ trim(l[i]) = l[i]
            /\ \E bl \in SectionLines :
                   /\ isBullet(bl)
                   /\ l[i] = trim(SubSeq(bl, 2, Len(bl)))

C22_Witness ==
    /\ Structured
    /\ responseText = Str(Narrative8)
    /\ result.produkt1.einsatzgebiete = <<<<"f","u","e","r"," ","g","r","o","s","s","e"," ","A","n","l","a","g","e","n">>, <<"e","l","f"," ","Z","e","i","c","h","e","n">>>>

----------------------------------------------------------------------------
(* Heading lines *)

\* the line at hand takes a branch of one of the two heading chains
IsHeadingNow ==
    /\ AtLine
    /\ \/ productHeading(lineLowerNow) > 0
       \/ /\ currentProduct = "vergleich"
          /\ vergleichHeading(lineLowerNow, currentSection) > 0

----------------------------------------------------------------------------
(* The limits of the result *)

MaxKurzbeschreibung == 500
MaxEmpfehlung == 300

IsText(s) == s \in Seq(STRING)

\* C24: in every result of a call, for both products, the short description
\* has at most 500 characters, the recommendation at most 300 characters and
\* the list of use cases at most 5 entries; short description, recommendation
\* and comparison text are strings.
C24_ResultLimits ==
    Structured =>
        /\ \A p \in {result.produkt1, result.produkt2} :
              /\ IsText(p.kurzbeschreibung)
              /\ Len(p.kurzbeschreibung) <= MaxKurzbeschreibung
              /\ IsText(p.empfehlung)
              /\ Len(p.empfehlung) <= MaxEmpfehlung
              /\ Len(p.einsatzgebiete) <= ListCap
        /\ IsText(result.vergleich.vergleich_text)

C24_Witness ==
    /\ Structured
    /\ responseText = Str(Narrative9)
    /\ Len(result.produkt1.kurzbeschreibung) = MaxKurzbeschreibung
    /\ Len(result.produkt1.empfehlung) = MaxEmpfehlung
    /\ Len(result.produkt1.einsatzgebiete) = ListCap

----------------------------------------------------------------------------
(* The sections of the comparison *)

\* the markers that give a section to a product
ProductMarkers ==
    {<<"p","r","o","d","u","k","t"," ","1">>, <<"p","r","o","d","u","k","t"," ","2">>, namesOf(products).produkt1Name,
     namesOf(products).produkt1ArtNr, namesOf(products).produkt2Name,
     namesOf(products).produkt2ArtNr}

\* C28: a section is scanned with the owner 'vergleich' only if its text
\* holds no name or number of a product and neither 'produkt 1' nor
\* 'produkt 2'; so no line scanned with that owner holds 'produkt 1:' or
\* 'produkt 2:', and the sub-section owner is never 'produkt1_alles' or
\* 'produkt2_alles'.
C28_NoProductInVergleich ==
    /\ currentSection \notin {"produkt1_alles", "produkt2_alles"}
    /\ (c_pc = "lines" /\ currentProduct = "vergleich") =>
          \A mk \in ProductMarkers : ~includes(toLowerCase(section), mk)
    /\ (AtLine /\ currentProduct = "vergleich") =>
          /\ ~includes(lineLowerNow, <<"p","r","o","d","u","k","t"," ","1",":">>)
          /\ ~includes(lineLowerNow, <<"p","r","o","d","u","k","t"," ","2",":">>)

\* the comparison with the sub-headings 'Produkt 1:' and 'Produkt 2:' has
\* been scanned: their section went to product 1 and the lists of the
\* sub-section owners are empty
C28_Witness ==
    /\ Structured
    /\ responseText = Str(Narrative7)
    /\ products = Arr(<<ProductA, ProductB>>)
    /\ currentProduct = "produkt1"
    /\ result.vergleich.produkt1_alles = EmptyAlles
    /\ result.vergleich.produkt2_alles = EmptyAlles

----------------------------------------------------------------------------
(* Claims about the converters as functions *)

InitSession == NIdle /\ MIdle /\ CIdle /\ GInit
SpecSession == InitSession /\ [][SessionNext]_vars

\* two finished calls of one converter with equal arguments ended alike
SameResults ==
    \A i, j \in 1..Len(calls) :
        (calls[i].fn = calls[j].fn /\ calls[i].args = calls[j].args)
        => (calls[i].threw = calls[j].threw
            /\ calls[i].value = calls[j].value)

\* a running call changes neither its arguments nor the module state
ArgumentsKept ==
    [][~AllIdle => UNCHANGED <<product, payload, markdown, responseText,
                               products, conversationHistory,
                               promptsData>>]_vars

\* C13: each converter is a pure function: two calls with equal arguments
\* return equal results whatever calls happened in between, and a call
\* leaves its arguments and conversationHistory and promptsData unchanged.
C13_Pure == []SameResults /\ ArgumentsKept

\* a converter returned a non-empty list twice for the same arguments,
\* with a call of another converter in between and the module state
\* changed
C13_Witness ==
    /\ \E i, j, k \in 1..Len(calls) :
          /\ i < j /\ j < k
          /\ calls[i].fn = "extractAllTechnicalSpecs"
          /\ calls[k].fn = "extractAllTechnicalSpecs"
          /\ calls[j].fn # "extractAllTechnicalSpecs"
          /\ calls[i].args = calls[k].args
          /\ calls[i].value # << >>
    /\ conversationHistory # << >>
    /\ promptsData # Null

----------------------------------------------------------------------------
(* Claims about sendMessage *)

InitChat == NIdle /\ MIdle /\ CIdle /\ GInit
SpecChat == InitChat /\ [][ChatNext]_vars

\* the pairs of the responses of rs whose request succeeded, in the order
\* of rs
RECURSIVE PairsOf(_)
PairsOf(rs) ==
    IF rs = << >> THEN << >>
    ELSE LET a == Head(rs)
             req == requests[CHOOSE k \in 1..Len(requests) :
                                 requests[k].call = a.call]
         IN (IF a.response.ok
             THEN <<[role |-> "user", content |-> Str(req.message)],
                    [role |-> "assistant",
                     content |-> Get(a.response.data, <<"r","e","s","p","o","n","s","e">>)]>>
             ELSE << >>)
            \o PairsOf(Tail(rs))

\* C29: after any interleaving of calls of sendMessage, conversationHistory
\* is the sequence of the (user, assistant) pairs of the calls whose request
\* succeeded, one pair per call, in the order in which the responses
\* arrived; a call that fails or whose input is blank adds nothing.
C29_HistoryPairs == conversationHistory = PairsOf(arrived)

\* the history is made of adjacent pairs in the order of arrival of the
\* responses for which the try block ran to its end
RECURSIVE PairsOfCompleted(_)
PairsOfCompleted(rs) ==
    IF rs = << >> THEN << >>
    ELSE LET a == Head(rs)
             req == requests[CHOOSE k \in 1..Len(requests) :
                                 requests[k].call = a.call]
             answer == Get(a.response.data, <<"r","e","s","p","o","n","s","e">>)
         IN (IF ~a.response.rejected /\ ~addMessageThrows("assistant", answer)
             THEN <<[role |-> "user", content |-> Str(req.message)],
                    [role |-> "assistant", content |-> answer]>>
             ELSE << >>)
            \o PairsOfCompleted(Tail(rs))

HistoryOfCompleted == conversationHistory = PairsOfCompleted(arrived)

\* the elements of the chat list that the call made
ElementsOf(call, role) ==
    {i \in 1..Len(chat) : chat[i].call = call /\ chat[i].role = role}

\* C30: the elements of the chat list have different ids, so removeMessage
\* removes the loading element of its own call only: the message of the
\* user of every call stays in the list, and the loading element of a call
\* is in the list exactly while its request is pending.
C30_UniqueIds ==
    /\ \A i, j \in 1..Len(chat) : (i # j) => chat[i].id # chat[j].id
    /\ \A k \in 1..Len(requests) :
          /\ ElementsOf(requests[k].call, "user") # {}
          /\ requests[k].pending <=>
                (\E i \in ElementsOf(requests[k].call, "assistant") :
                     chat[i].content = LoadingMarkup)

============================================================================
